---- MODULE Spec2Model ----
(***************************************************************************)
(* Support-ticket client: the Session Coordinator (AuthProvider in         *)
(* src/src/lib/api.ts, lines 527-788) and the Aggregator (the ticket,      *)
(* message and attachment functions of src/src/lib/api.ts, lines 1-526,    *)
(* with their callers in src/src/components/tickets).                      *)
(*                                                                         *)
(* Every await of the source is an interleaving point: an action is the    *)
(* backend's answer to one request together with the synchronous code      *)
(* that runs until the next await.                                         *)
(***************************************************************************)
EXTENDS Integers, Sequences, FiniteSets, TLC

\* ------------------------------------------------------------------ values

None == "none"
NullRole == "null"
Roles == {"admin", "customer"}
Users == {"u1", "u2"}

\* u1 signs up and signs in with an e-mail address; u2 is an identity whose
\* session carries no e-mail (user.email is string | undefined).
Email(u) == IF u = "u1" THEN "u1@example.org" ELSE None
EmailUsers == {u \in Users : Email(u) # None}

\* Bound of the model: the number of stimuli the environment gives in a run
\* (a call of signUp/signIn/signOut, a session change made elsewhere, a
\* failing backend request, a move of the user to another location).
MaxStimuli == 2

\* Processes of the coordinator: the bootstrapping run, two slots for running
\* session-change callbacks, and the slot of the signUp/signIn/signOut call.
Handlers == {"h1", "h2"}
Procs == {"boot", "op"} \cup Handlers

\* Locations are hash paths, kept as sequences of tokens so that startsWith
\* is a prefix test: "/admin/settings" is <<"/", "admin", "/", "settings">>.
EmptyHash == << >>
Root == <<"/">>
RolePath(r) == <<"/", r>>
RegisterPath == <<"/", "register">>
ForgotPath == <<"/", "forgot-password">>

VARIABLES
    \* backend
    backendSession, registered, profiles, pending,
    \* AuthProvider state
    session, profile, userType, isLoading, isInitialized,
    \* subscription and lifetime
    subscribed, unsubCalls, tornDown,
    \* navigation
    location, effDeps, navLog,
    \* control
    proc, nstim,
    \* backend tables of the Aggregator
    tickets, messages,
    \* the attachments table and the storage bucket 'attachments'
    attachments, blobs,
    \* the client that calls the Aggregator
    call, result, prev, thread, ncalls

backendVars == <<backendSession, registered, profiles, pending>>
authVars == <<session, profile, userType, isLoading, isInitialized>>
subVars == <<subscribed, unsubCalls, tornDown>>
navVars == <<location, effDeps, navLog>>
ctlVars == <<proc, nstim>>
coordVars == <<backendVars, authVars, subVars, navVars, ctlVars>>
storeVars == <<attachments, blobs>>
aggVars == <<tickets, messages, storeVars, call, result, prev, thread, ncalls>>
vars == <<coordVars, aggVars>>

\* ------------------------------------------------------------ navigation

NoRedirect == <<"none">>

StartsWith(p, q) == Len(q) <= Len(p) /\ SubSeq(p, 1, Len(q)) = q

\* const hashPath = window.location.hash.replace('#', ''); hashPath || '/'
Pathname(hash) == IF hash = EmptyHash THEN Root ELSE hash

\* Mutant of NavIntent: the forgot-password page is not exempted.
NavIntent_NoForgotExemption(auth, role, pathname) ==
    IF /\ ~auth
       /\ ~StartsWith(pathname, RegisterPath)
       /\ pathname # Root
    THEN Root
    ELSE IF auth /\ role # NullRole /\ ~StartsWith(pathname, RolePath(role))
    THEN RolePath(role)
    ELSE NoRedirect

\* The navigation effect's decision once initialized and not loading: the
\* target of navigate(), or NoRedirect.
NavIntent(auth, role, pathname) ==
    IF /\ ~auth
       /\ ~StartsWith(pathname, RegisterPath)
       /\ ~StartsWith(pathname, ForgotPath)
       /\ pathname # Root
    THEN Root
    ELSE IF auth /\ role # NullRole /\ pathname = Root
    THEN RolePath(role)
    ELSE IF auth /\ role # NullRole
    THEN IF role = "admin" /\ ~StartsWith(pathname, RolePath("admin"))
         THEN RolePath("admin")
         ELSE IF role = "customer" /\ ~StartsWith(pathname, RolePath("customer"))
         THEN RolePath("customer")
         ELSE NoRedirect
    ELSE NoRedirect

\* ------------------------------------------------------- Session Coordinator

NoProfile == [id |-> None, user_type |-> NullRole]
ProfileRow(u, r) == [id |-> u, user_type |-> r]

IdleProc == [kind |-> "idle", pc |-> "idle", uid |-> None, role |-> NullRole,
             ret |-> None, conf |-> FALSE, bad |-> FALSE]

\* const isAuthenticated = !!session && !!user
isAuthenticated == session # None

\* Mutant of Deps: navigate keeps one identity across locations.
Deps_StableNavigate == <<isAuthenticated, userType, isInitialized, isLoading, Root>>

\* The navigation effect's dependency list (line 698). navigate is the
\* callback of useNavigate under HashRouter: react-router builds it with
\* useCallback over the location's pathname, so its identity stands for the
\* pathname of the last render.
Deps == <<isAuthenticated, userType, isInitialized, isLoading, Pathname(location)>>

\* A backend request may fail; a failure is a stimulus of the environment.
FailChoices == IF nstim < MaxStimuli THEN {FALSE, TRUE} ELSE {FALSE}
Failed(fail) == nstim' = nstim + (IF fail THEN 1 ELSE 0)
\* The process record with the failure noted in it.
Noted(p, fail) == [proc EXCEPT ![p].bad = proc[p].bad \/ fail]

\* getProfile: the row with this id, or null when there is none or the
\* request fails.
GetProfileResult(u, fail) ==
    IF fail \/ profiles[u] = NullRole THEN NoProfile ELSE ProfileRow(u, profiles[u])

\* The backend publishes a session change to the callbacks registered now.
Emit(s) == pending' = IF subscribed > 0 THEN Append(pending, s) ELSE pending

\* setProfile(p); setUserType(p.user_type || null)
\* Mutant of AdoptProfile: the role is left as it was.
AdoptProfile_KeepsRole(row) == profile' = row /\ UNCHANGED userType

AdoptProfile(row) == profile' = row /\ userType' = row.user_type

\* setIsInitialized(true); setIsLoading(false); then onAuthStateChange(cb).
\* The cleanup closure the async function returns is dropped by its caller.
BootReady ==
    /\ isInitialized' = TRUE
    /\ isLoading' = FALSE
    /\ subscribed' = subscribed + 1

\* Mutant of BootCatch: the catch branch only logs.
BootCatch_LogsOnly == UNCHANGED <<isInitialized, isLoading, subscribed>>

\* The catch branch of initializeAuth.
BootCatch ==
    /\ isInitialized' = TRUE
    /\ isLoading' = FALSE
    /\ UNCHANGED subscribed

\* fetchOrCreateProfile returns row (NoProfile for null) to its caller.
ResolveReturn(p, row, fail) ==
    /\ proc' = [Noted(p, fail) EXCEPT ![p].pc = "done", ![p].ret = row.id]
    /\ IF proc[p].kind = "boot"
       THEN BootReady
       ELSE UNCHANGED <<isInitialized, isLoading, subscribed>>

\* Mutant of CreateReturn: fetchOrCreateProfile drops the profile that
\* createProfile returned and gives up.
CreateReturn_DropsProfile(p, row, fail) ==
    IF proc[p].kind = "signUp"
    THEN /\ proc' = [Noted(p, fail) EXCEPT ![p].pc = "done", ![p].ret = row.id]
         /\ isLoading' = FALSE
         /\ UNCHANGED <<profile, userType, isInitialized, subscribed>>
    ELSE /\ ResolveReturn(p, NoProfile, fail)
         /\ UNCHANGED <<profile, userType>>

\* createProfile returns row (NoProfile for null) to its caller:
\* fetchOrCreateProfile adopts a profile or goes on to its last re-fetch,
\* signUp reports and ends in its finally block.
CreateReturn(p, row, fail) ==
    IF proc[p].kind = "signUp"
    THEN /\ proc' = [Noted(p, fail) EXCEPT ![p].pc = "done", ![p].ret = row.id]
         /\ isLoading' = FALSE
         /\ UNCHANGED <<profile, userType, isInitialized, subscribed>>
    ELSE IF row # NoProfile
    THEN AdoptProfile(row) /\ ResolveReturn(p, row, fail)
    ELSE /\ proc' = [Noted(p, fail) EXCEPT ![p].pc = "retry"]
         /\ UNCHANGED <<profile, userType, isInitialized, isLoading, subscribed>>

\* A continuation still has a component to act on: after the unmount only
\* initializeAuth is followed further.
Alive(p) == p = "boot" \/ ~tornDown

\* initializeAuth: the answer of supabase.auth.getSession().
BootGetSession ==
    /\ proc["boot"].pc = "getSession"
    /\ \E fail \in FailChoices :
         /\ Failed(fail)
         /\ IF fail
            THEN /\ BootCatch
                 /\ proc' = [Noted("boot", fail) EXCEPT !["boot"].pc = "done"]
                 /\ UNCHANGED session
            ELSE /\ session' = backendSession
                 /\ IF backendSession # None
                    THEN /\ proc' = [Noted("boot", fail) EXCEPT !["boot"].pc = "delay",
                                                 !["boot"].uid = backendSession]
                         /\ UNCHANGED <<isInitialized, isLoading, subscribed>>
                    ELSE /\ proc' = [Noted("boot", fail) EXCEPT !["boot"].pc = "done"]
                         /\ BootReady
    /\ UNCHANGED <<aggVars, backendVars, profile, userType, unsubCalls, tornDown, navVars>>

\* fetchOrCreateProfile: the 50 ms timer fires.
ResolveDelay(p) ==
    /\ Alive(p)
    /\ proc[p].pc = "delay"
    /\ proc' = [proc EXCEPT ![p].pc = "get"]
    /\ UNCHANGED <<aggVars, backendVars, authVars, subVars, navVars, nstim>>

\* fetchOrCreateProfile: the answer of the first getProfile(userId).
ResolveFetch(p) ==
    /\ Alive(p)
    /\ proc[p].pc = "get"
    /\ \E fail \in FailChoices :
         /\ Failed(fail)
         /\ LET row == GetProfileResult(proc[p].uid, fail) IN
            IF row # NoProfile
            THEN AdoptProfile(row) /\ ResolveReturn(p, row, fail)
            ELSE IF Email(proc[p].uid) # None
            THEN /\ proc' = [Noted(p, fail) EXCEPT ![p].pc = "cget", ![p].role = "customer"]
                 /\ UNCHANGED <<profile, userType, isInitialized, isLoading, subscribed>>
            ELSE /\ ResolveReturn(p, NoProfile, fail)
                 /\ UNCHANGED <<profile, userType>>
    /\ UNCHANGED <<aggVars, backendVars, session, unsubCalls, tornDown, navVars>>

\* createProfile: the answer of its getProfile(userId) double check.
CreateCheck(p) ==
    /\ Alive(p)
    /\ proc[p].pc = "cget"
    /\ \E fail \in FailChoices :
         /\ Failed(fail)
         /\ LET row == GetProfileResult(proc[p].uid, fail) IN
            IF row # NoProfile
            THEN CreateReturn(p, row, fail)
            ELSE /\ proc' = [Noted(p, fail) EXCEPT ![p].pc = "cins"]
                 /\ UNCHANGED <<profile, userType, isInitialized, isLoading, subscribed>>
    /\ UNCHANGED <<aggVars, backendVars, session, unsubCalls, tornDown, navVars>>

\* createProfile: the answer of the insert into profiles. The table's key
\* is the id: an insert for an id that has a row is refused with code 23505.
CreateInsert(p) ==
    /\ Alive(p)
    /\ proc[p].pc = "cins"
    /\ \E fail \in FailChoices :
         /\ Failed(fail)
         /\ IF fail
            THEN CreateReturn(p, NoProfile, fail) /\ UNCHANGED profiles
            ELSE IF profiles[proc[p].uid] # NullRole
            THEN /\ proc' = [Noted(p, fail) EXCEPT ![p].pc = "cref", ![p].conf = TRUE]
                 /\ UNCHANGED <<profiles, profile, userType, isInitialized, isLoading,
                                subscribed>>
            ELSE /\ profiles' = [profiles EXCEPT ![proc[p].uid] = proc[p].role]
                 /\ CreateReturn(p, ProfileRow(proc[p].uid, proc[p].role), fail)
    /\ UNCHANGED <<aggVars, backendSession, registered, pending, session, unsubCalls, tornDown,
                   navVars>>

\* createProfile: the answer of getProfile(userId) after a 23505.
CreateRefetch(p) ==
    /\ Alive(p)
    /\ proc[p].pc = "cref"
    /\ \E fail \in FailChoices :
         /\ Failed(fail)
         /\ CreateReturn(p, GetProfileResult(proc[p].uid, fail), fail)
    /\ UNCHANGED <<aggVars, backendVars, session, unsubCalls, tornDown, navVars>>

\* fetchOrCreateProfile: the answer of the last getProfile(userId), after
\* createProfile returned null.
ResolveRetry(p) ==
    /\ Alive(p)
    /\ proc[p].pc = "retry"
    /\ \E fail \in FailChoices :
         /\ Failed(fail)
         /\ LET row == GetProfileResult(proc[p].uid, fail) IN
            /\ IF row # NoProfile THEN AdoptProfile(row) ELSE UNCHANGED <<profile, userType>>
            /\ ResolveReturn(p, row, fail)
    /\ UNCHANGED <<aggVars, backendVars, session, unsubCalls, tornDown, navVars>>

\* The session-change callback (lines 640-650) is invoked with the oldest
\* undelivered session: setSession, setUser, then profile resolution for a
\* user, or the reset of profile and userType for none.
FreeHandler == CHOOSE h \in Handlers :
    /\ proc[h].pc \in {"idle", "done"}
    /\ \A g \in Handlers : proc[g].pc \in {"idle", "done"} => (h = "h1" \/ g # "h1")

AuthStateChange ==
    /\ pending # << >>
    /\ ~tornDown
    /\ LET s == Head(pending) IN
       /\ pending' = Tail(pending)
       /\ session' = s
       /\ IF s # None
          THEN /\ \E h \in Handlers : proc[h].pc \in {"idle", "done"}
               /\ proc' = [proc EXCEPT ![FreeHandler] =
                              [IdleProc EXCEPT !.kind = "event", !.pc = "delay", !.uid = s]]
               /\ UNCHANGED <<profile, userType>>
          ELSE /\ profile' = NoProfile
               /\ userType' = NullRole
               /\ UNCHANGED proc
    /\ UNCHANGED <<aggVars, backendSession, registered, profiles, isLoading, isInitialized,
                   subVars, navVars, nstim>>

\* A session change that no call of this coordinator made: another tab signs
\* in or out, or the backend re-announces the current session.
ExternalSessionChange(s) ==
    /\ nstim < MaxStimuli
    /\ ~tornDown
    /\ nstim' = nstim + 1
    /\ backendSession' = s
    /\ Emit(s)
    /\ UNCHANGED <<aggVars, registered, profiles, authVars, subVars, navVars, proc>>

\* Another client of the same backend (a second tab running this code)
\* provisions the default profile of an identity first.
ExternalProfileInsert(u) ==
    /\ nstim < MaxStimuli
    /\ ~tornDown
    /\ u \in registered
    /\ profiles[u] = NullRole
    /\ Email(u) # None
    /\ nstim' = nstim + 1
    /\ profiles' = [profiles EXCEPT ![u] = "customer"]
    /\ UNCHANGED <<aggVars, backendSession, registered, pending, authVars, subVars, navVars, proc>>

OpFree == proc["op"].pc \in {"idle", "done"} /\ nstim < MaxStimuli /\ ~tornDown

\* The route whose element renders: LoginPage at "/", RegisterPage at
\* "/register", a dashboard (inside ProtectedRoute) under "/admin" and "/customer".
UnderRole(path, r) ==
    path = RolePath(r) \/ StartsWith(path, RolePath(r) \o <<"/">>)
DashboardShown ==
    /\ ~isLoading
    /\ isAuthenticated
    /\ \E r \in Roles : userType = r /\ UnderRole(Pathname(location), r)

\* signUp(email, password, userType): setIsLoading(true), then the request.
SignUpCall(u, r) ==
    /\ OpFree
    /\ Pathname(location) = RegisterPath
    /\ isLoading' = TRUE
    /\ nstim' = nstim + 1
    /\ proc' = [proc EXCEPT !["op"] =
                   [IdleProc EXCEPT !.kind = "signUp", !.pc = "req", !.uid = u, !.role = r]]
    /\ UNCHANGED <<aggVars, backendVars, session, profile, userType, isInitialized, subVars,
                   navVars>>

\* The backend handles auth.signUp: it refuses a known e-mail, else it
\* creates the credentials and, when it confirms them at once, a session.
SignUpBackend ==
    /\ ~tornDown
    /\ proc["op"].kind = "signUp" /\ proc["op"].pc = "req"
    /\ \E fail \in FailChoices, auto \in BOOLEAN :
         /\ Failed(fail)
         /\ IF fail \/ proc["op"].uid \in registered
            THEN /\ proc' = [Noted("op", fail) EXCEPT !["op"].pc = "resp", !["op"].ret = "err"]
                 /\ auto = FALSE
                 /\ UNCHANGED <<registered, backendSession, pending>>
            ELSE /\ proc' = [proc EXCEPT !["op"].pc = "resp", !["op"].ret = "ok"]
                 /\ registered' = registered \cup {proc["op"].uid}
                 /\ IF auto
                    THEN backendSession' = proc["op"].uid /\ Emit(proc["op"].uid)
                    ELSE UNCHANGED <<backendSession, pending>>
    /\ UNCHANGED <<aggVars, profiles, authVars, subVars, navVars>>

\* signUp resumes: an error goes to catch and finally, a user to createProfile.
SignUpResume ==
    /\ ~tornDown
    /\ proc["op"].kind = "signUp" /\ proc["op"].pc = "resp"
    /\ IF proc["op"].ret = "err"
       THEN /\ proc' = [proc EXCEPT !["op"].pc = "done"]
            /\ isLoading' = FALSE
       ELSE /\ proc' = [proc EXCEPT !["op"].pc = "cget", !["op"].ret = None]
            /\ UNCHANGED isLoading
    /\ UNCHANGED <<aggVars, backendVars, session, profile, userType, isInitialized, subVars,
                   navVars, nstim>>

\* signIn(email, password): setIsLoading(true), then the request.
SignInCall(u) ==
    /\ OpFree
    /\ Pathname(location) = Root
    /\ isLoading' = TRUE
    /\ nstim' = nstim + 1
    /\ proc' = [proc EXCEPT !["op"] =
                   [IdleProc EXCEPT !.kind = "signIn", !.pc = "req", !.uid = u]]
    /\ UNCHANGED <<aggVars, backendVars, session, profile, userType, isInitialized, subVars,
                   navVars>>

SignInBackend ==
    /\ ~tornDown
    /\ proc["op"].kind = "signIn" /\ proc["op"].pc = "req"
    /\ \E fail \in FailChoices :
         /\ Failed(fail)
         /\ IF fail \/ proc["op"].uid \notin registered
            THEN /\ proc' = [Noted("op", fail) EXCEPT !["op"].pc = "resp", !["op"].ret = "err"]
                 /\ UNCHANGED <<backendSession, pending>>
            ELSE /\ proc' = [proc EXCEPT !["op"].pc = "resp", !["op"].ret = "ok"]
                 /\ backendSession' = proc["op"].uid
                 /\ Emit(proc["op"].uid)
    /\ UNCHANGED <<aggVars, registered, profiles, authVars, subVars, navVars>>

\* signIn resumes: the session is left to the listener; finally clears loading.
SignInResume ==
    /\ ~tornDown
    /\ proc["op"].kind = "signIn" /\ proc["op"].pc = "resp"
    /\ proc' = [proc EXCEPT !["op"].pc = "done"]
    /\ isLoading' = FALSE
    /\ UNCHANGED <<aggVars, backendVars, session, profile, userType, isInitialized, subVars,
                   navVars, nstim>>

\* signOut(), called from the dashboard layout: setIsLoading(true), then the request.
SignOutCall ==
    /\ OpFree
    /\ DashboardShown
    /\ isLoading' = TRUE
    /\ nstim' = nstim + 1
    /\ proc' = [proc EXCEPT !["op"] = [IdleProc EXCEPT !.kind = "signOut", !.pc = "req"]]
    /\ UNCHANGED <<aggVars, backendVars, session, profile, userType, isInitialized, subVars,
                   navVars>>

SignOutBackend ==
    /\ ~tornDown
    /\ proc["op"].kind = "signOut" /\ proc["op"].pc = "req"
    /\ \E fail \in FailChoices :
         /\ Failed(fail)
         /\ IF fail
            THEN /\ proc' = [Noted("op", fail) EXCEPT !["op"].pc = "resp", !["op"].ret = "err"]
                 /\ UNCHANGED <<backendSession, pending>>
            ELSE /\ proc' = [proc EXCEPT !["op"].pc = "resp", !["op"].ret = "ok"]
                 /\ backendSession' = None
                 /\ Emit(None)
    /\ UNCHANGED <<aggVars, registered, profiles, authVars, subVars, navVars>>

\* A redirect, with the loading and initialized flags it was issued under.
NavRecord(by) == [by |-> by, loading |-> isLoading, init |-> isInitialized]

\* Mutant of SignOutResume: the redirect is issued whatever the backend
\* answered.
SignOutResume_AlwaysRedirects ==
    /\ ~tornDown
    /\ proc["op"].kind = "signOut" /\ proc["op"].pc = "resp"
    /\ proc' = [proc EXCEPT !["op"].pc = "done"]
    /\ isLoading' = FALSE
    /\ location' = Root /\ navLog' = navLog \cup {NavRecord("signOut")}
    /\ UNCHANGED <<aggVars, backendVars, session, profile, userType, isInitialized, subVars,
                   effDeps, nstim>>

\* signOut resumes: on success navigate('/', {replace: true}); finally
\* clears loading.
SignOutResume ==
    /\ ~tornDown
    /\ proc["op"].kind = "signOut" /\ proc["op"].pc = "resp"
    /\ proc' = [proc EXCEPT !["op"].pc = "done"]
    /\ isLoading' = FALSE
    /\ IF proc["op"].ret = "ok"
       THEN location' = Root /\ navLog' = navLog \cup {NavRecord("signOut")}
       ELSE UNCHANGED <<location, navLog>>
    /\ UNCHANGED <<aggVars, backendVars, session, profile, userType, isInitialized, subVars,
                   effDeps, nstim>>

\* Mutant of NavGuard: the effect does not wait for loading to end.
NavGuard_IgnoresLoading == isInitialized

\* The guard of the navigation effect (line 669).
NavGuard == isInitialized /\ ~isLoading

\* The navigation effect: it runs after a render that changed one of its
\* dependencies.
NavEffect ==
    /\ ~tornDown
    /\ effDeps # Deps
    /\ effDeps' = Deps
    /\ LET to == NavIntent(isAuthenticated, userType, Pathname(location)) IN
       IF NavGuard /\ to # NoRedirect
       THEN location' = to /\ navLog' = navLog \cup {NavRecord("effect")}
       ELSE UNCHANGED <<location, navLog>>
    /\ UNCHANGED <<aggVars, backendVars, authVars, subVars, ctlVars>>

\* Locations the user moves to by link or address bar.
AppPaths == {Root, RegisterPath, RolePath("admin"), RolePath("customer")}

UserNavigate(path) ==
    /\ ~tornDown
    /\ nstim < MaxStimuli
    /\ path # location
    /\ location' = path
    /\ nstim' = nstim + 1
    /\ UNCHANGED <<aggVars, backendVars, authVars, subVars, effDeps, navLog, proc>>

\* What React runs when AuthProvider unmounts: the effect callback returned
\* nothing (it only started initializeAuth), so no cleanup is registered.
EffectCleanup == UNCHANGED <<subscribed, unsubCalls>>

\* AuthProvider unmounts. Its state is discarded with it and the handlers and
\* calls still in flight can no longer change it; initializeAuth, if it
\* is still running, goes on to its subscription.
Teardown ==
    /\ ~tornDown
    /\ tornDown' = TRUE
    /\ EffectCleanup
    /\ session' = None
    /\ profile' = NoProfile
    /\ userType' = NullRole
    /\ isLoading' = FALSE
    /\ isInitialized' = FALSE
    /\ pending' = << >>
    /\ effDeps' = <<FALSE, NullRole, FALSE, FALSE, Pathname(location)>>
    /\ proc' = [p \in Procs |-> IF p = "boot" THEN proc[p] ELSE IdleProc]
    /\ UNCHANGED <<aggVars, backendSession, registered, profiles, location, navLog, nstim>>

\* The Aggregator at rest, for the runs that follow the coordinator alone.
NoCall == [op |-> "none", pc |-> "idle", quiet |-> TRUE]
NoResult == [op |-> "none", ok |-> FALSE, fresh |-> FALSE]
\* TicketThread's state: the route's ticket id, whether the thread and its
\* reply form are rendered, and the status of the ticket held locally.
NoThread == [ticketId |-> 0, shown |-> FALSE, status |-> "none"]
\* No ticket component is mounted.
AggIdle ==
    /\ tickets = << >>
    /\ messages = << >>
    /\ attachments = << >>
    /\ blobs = {}
    /\ call = NoCall
    /\ result = NoResult
    /\ prev = NoResult
    /\ thread = NoThread
    /\ ncalls = 0

\* The state after AuthProvider's first render: the backend holds any
\* consistent set of identities, profiles and session.
InitAuth ==
    /\ registered \in {{"u2"}, {"u1", "u2"}}
    /\ profiles \in [Users -> Roles \cup {NullRole}]
    /\ profiles["u1"] \in {NullRole, "customer"}
    /\ profiles["u2"] \in {NullRole, "admin"}
    /\ \A u \in Users : profiles[u] # NullRole => u \in registered
    /\ backendSession \in registered \cup {None}
    /\ pending = << >>
    /\ session = None
    /\ profile = NoProfile
    /\ userType = NullRole
    /\ isLoading = TRUE
    /\ isInitialized = FALSE
    /\ subscribed = 0
    /\ unsubCalls = 0
    /\ tornDown = FALSE
    /\ location \in AppPaths
    /\ effDeps = <<FALSE, NullRole, FALSE, TRUE, Pathname(location)>>
    /\ navLog = {}
    /\ proc = [p \in Procs |->
                 IF p = "boot" THEN [IdleProc EXCEPT !.kind = "boot", !.pc = "getSession"]
                 ELSE IdleProc]
    /\ nstim = 0
    /\ AggIdle

NextAuth ==
    \/ BootGetSession
    \/ \E p \in Procs : ResolveDelay(p)
    \/ \E p \in Procs : ResolveFetch(p)
    \/ \E p \in Procs : CreateCheck(p)
    \/ \E p \in Procs : CreateInsert(p)
    \/ \E p \in Procs : CreateRefetch(p)
    \/ \E p \in Procs : ResolveRetry(p)
    \/ AuthStateChange
    \/ \E s \in Users \cup {None} : s \in registered \cup {None} /\ ExternalSessionChange(s)
    \/ \E u \in Users : ExternalProfileInsert(u)
    \/ \E u \in EmailUsers, r \in Roles : SignUpCall(u, r)
    \/ SignUpBackend
    \/ SignUpResume
    \/ \E u \in EmailUsers : SignInCall(u)
    \/ SignInBackend
    \/ SignInResume
    \/ SignOutCall
    \/ SignOutBackend
    \/ SignOutResume
    \/ NavEffect
    \/ \E path \in AppPaths : UserNavigate(path)
    \/ Teardown

SpecAuth == InitAuth /\ [][NextAuth]_vars

\* ---------------------------------------------- the navigation function alone

\* Hash paths the navigation function is applied to: the routes of the
\* application, paths below them, and paths that only begin like them
\* ("/registerx" is <<"/", "register", "x">>).
NavPaths ==
    {EmptyHash, Root, RegisterPath, ForgotPath,
     RegisterPath \o <<"x">>, ForgotPath \o <<"/", "sent">>,
     RolePath("admin"), RolePath("admin") \o <<"/", "settings">>,
     RolePath("admin") \o <<"x">>,
     RolePath("customer"), RolePath("customer") \o <<"/", "ticket", "/", "1">>,
     RolePath("customer") \o <<"x">>,
     <<"/", "other">>}

\* A coordinator that is Ready with any session, role and location, whose
\* navigation effect is due.
InitNav ==
    /\ registered = Users
    /\ profiles = [u \in Users |-> NullRole]
    /\ backendSession = None
    /\ pending = << >>
    /\ session \in {None, "u1"}
    /\ userType \in Roles \cup {NullRole}
    /\ profile = IF userType = NullRole THEN NoProfile ELSE ProfileRow("u1", userType)
    /\ isLoading = FALSE
    /\ isInitialized = TRUE
    /\ subscribed = 1
    /\ unsubCalls = 0
    /\ tornDown = FALSE
    /\ location \in NavPaths
    /\ effDeps = <<FALSE, NullRole, FALSE, TRUE, Pathname(location)>>
    /\ navLog = {}
    /\ proc = [p \in Procs |-> IF p = "boot" THEN [IdleProc EXCEPT !.kind = "boot", !.pc = "done"]
                               ELSE IdleProc]
    /\ nstim = 0
    /\ AggIdle

NextNav == NavEffect

SpecNav == InitNav /\ [][NextNav]_vars

\* ------------------------------------------------------------ the route guard

\* The paths of the dashboard of role r that have a route: the index, a
\* ticket and the settings.
DashboardRoutes(r) ==
    {RolePath(r), RolePath(r) \o <<"/", "settings">>}
        \cup {RolePath(r) \o <<"/", "ticket", "/", id>> : id \in {"1", "2"}}

\* The element <Routes> renders for a pathname.
RouteOf(pathname) ==
    IF pathname \in {Root, RegisterPath, ForgotPath} THEN "public"
    ELSE IF pathname \in DashboardRoutes("admin") THEN "admin"
    ELSE IF pathname \in DashboardRoutes("customer") THEN "customer"
    ELSE "fallback"

\* Mutant of RouteRedirect: a user of another role is sent to the dashboard
\* the route requires.
RouteRedirect_ToRequired(auth, role, loading, pathname) ==
    LET required == RouteOf(pathname) IN
    IF required = "public" THEN NoRedirect
    ELSE IF required = "fallback" THEN Root
    ELSE IF loading THEN NoRedirect
    ELSE IF ~auth THEN Root
    ELSE IF role # required THEN RolePath(required)
    ELSE NoRedirect

\* The target of the <Navigate> the matched route renders, or NoRedirect:
\* the fallback route goes to '/', ProtectedRoute to '/' without a session
\* and to `/${userType}` with a role other than the required one.
RouteRedirect(auth, role, loading, pathname) ==
    LET required == RouteOf(pathname) IN
    IF required = "public" THEN NoRedirect
    ELSE IF required = "fallback" THEN Root
    ELSE IF loading THEN NoRedirect
    ELSE IF ~auth THEN Root
    ELSE IF role # required THEN RolePath(role)
    ELSE NoRedirect

\* <Navigate> has been rendered and its effect navigates.
RouteGuard ==
    /\ ~tornDown
    /\ LET to == RouteRedirect(isAuthenticated, userType, isLoading, Pathname(location)) IN
       /\ to # NoRedirect
       /\ location' = to
       /\ navLog' = navLog \cup {NavRecord("route")}
    /\ UNCHANGED <<aggVars, backendVars, authVars, subVars, effDeps, ctlVars>>

NextRoute == NavEffect \/ RouteGuard

\* The routes and the navigation effect of a Ready coordinator whose session
\* and role stay as they are; React runs every effect that is due.
SpecRoute ==
    /\ InitNav
    /\ [][NextRoute]_vars
    /\ WF_vars(NavEffect)
    /\ WF_vars(RouteGuard)

\* Every request of bootstrapping is answered (with a result or a failure)
\* and its timer fires.
FairSpecAuth ==
    /\ InitAuth
    /\ [][NextAuth]_vars
    /\ WF_vars(BootGetSession)
    /\ WF_vars(ResolveDelay("boot"))
    /\ WF_vars(ResolveFetch("boot"))
    /\ WF_vars(CreateCheck("boot"))
    /\ WF_vars(CreateInsert("boot"))
    /\ WF_vars(CreateRefetch("boot"))
    /\ WF_vars(ResolveRetry("boot"))


\* A Ready coordinator whose signed-in user is on their dashboard, the
\* state in which MainLayout offers signOut(); the other identity may lack
\* a profile.
InitSignOut ==
    /\ registered = Users
    /\ profiles \in [Users -> Roles \cup {NullRole}]
    /\ profiles["u1"] \in {NullRole, "customer"}
    /\ profiles["u2"] \in {NullRole, "admin"}
    /\ session \in {u \in Users : profiles[u] # NullRole}
    /\ backendSession = session
    /\ pending = << >>
    /\ profile = ProfileRow(session, profiles[session])
    /\ userType = profiles[session]
    /\ isLoading = FALSE
    /\ isInitialized = TRUE
    /\ subscribed = 1
    /\ unsubCalls = 0
    /\ tornDown = FALSE
    /\ location = RolePath(userType)
    /\ effDeps = <<TRUE, userType, TRUE, FALSE, Pathname(location)>>
    /\ navLog = {}
    /\ proc = [p \in Procs |-> IF p = "boot" THEN [IdleProc EXCEPT !.kind = "boot", !.pc = "done"]
                               ELSE IdleProc]
    /\ nstim = 0
    /\ AggIdle

\* What the coordinator and its environment do after bootstrapping.
NextSignOut ==
    \/ \E h \in Handlers : ResolveDelay(h)
    \/ \E h \in Handlers : ResolveFetch(h)
    \/ \E h \in Handlers : CreateCheck(h)
    \/ \E h \in Handlers : CreateInsert(h)
    \/ \E h \in Handlers : CreateRefetch(h)
    \/ \E h \in Handlers : ResolveRetry(h)
    \/ AuthStateChange
    \/ \E s \in Users \cup {None} : ExternalSessionChange(s)
    \/ \E u \in Users : ExternalProfileInsert(u)
    \/ \E u \in EmailUsers : SignInCall(u)
    \/ SignInBackend
    \/ SignInResume
    \/ SignOutCall
    \/ SignOutBackend
    \/ SignOutResume
    \/ NavEffect
    \/ \E path \in AppPaths : UserNavigate(path)
    \/ Teardown

\* The event loop runs every continuation that is ready and delivers every
\* emitted event, and React runs the effect after a render that changed its
\* dependencies.
FairSpecSignOut ==
    /\ InitSignOut
    /\ [][NextSignOut]_vars
    /\ WF_vars(AuthStateChange)
    /\ WF_vars(SignOutResume)
    /\ WF_vars(NavEffect)
    /\ \A h \in Handlers :
           /\ WF_vars(ResolveDelay(h))
           /\ WF_vars(ResolveFetch(h))
           /\ WF_vars(CreateCheck(h))
           /\ WF_vars(CreateInsert(h))
           /\ WF_vars(CreateRefetch(h))
           /\ WF_vars(ResolveRetry(h))

\* React runs the navigation effect of a render before it renders again:
\* while the effect is due, it is the next thing that happens.
NextFlushed ==
    \/ effDeps # Deps /\ NavEffect
    \/ effDeps = Deps /\ NextSignOut

FairSpecFlushed ==
    /\ InitSignOut
    /\ [][NextFlushed]_vars
    /\ WF_vars(NavEffect)

\* ------------------------------------------------------------ the Aggregator

\* Calls of the client, writes of other clients and failing requests that
\* one behaviour may contain.
MaxCalls == 3

Statuses == {"open", "pending", "resolved"}
Priorities == {"low", "medium", "high"}
Subjects == {"s3"}
Categories == {"General"}
\* Message texts; the empty one is the form's empty message field.
Texts == {"", "m1"}
\* A customer who is not one of the identities that sign in here, and has
\* no row in profiles.
OtherCustomer == "u3"

\* The answer to a request: data, an error object, or a rejected promise.
Outcomes == IF ncalls < MaxCalls THEN {"ok", "error", "throw"} ELSE {"ok"}
Charged(o) == ncalls' = ncalls + (IF o = "ok" THEN 0 ELSE 1)

Max(S) == CHOOSE x \in S : \A y \in S : y <= x

\* The backend's clock (created_at defaults to now()) is ahead of every
\* stored time; the clients' clocks (new Date()) are taken to agree with it.
Stamps ==
    {0} \cup {tickets[i].created_at : i \in 1..Len(tickets)}
        \cup {tickets[i].updated_at : i \in 1..Len(tickets)}
        \cup {messages[i].created_at : i \in 1..Len(messages)}
ServerNow == Max(Stamps) + 1
ClientClocks == {ServerNow}

NoTicket == [id |-> 0]
NoMessage == [id |-> 0]

\* Mutant of NewTicket: the row is stored as pending.
NewTicket_Pending(id, c, at) ==
    [id |-> id, subject |-> c.subject, customer_id |-> c.customerId,
     priority |-> c.priority, category |-> c.category, status |-> "pending",
     assigned_to |-> None, created_at |-> at, updated_at |-> at]

\* insert({ subject, customer_id: customerId, priority, category, status:
\* 'open' }): the row the backend stores, with its defaults.
NewTicket(id, c, at) ==
    [id |-> id, subject |-> c.subject, customer_id |-> c.customerId,
     priority |-> c.priority, category |-> c.category, status |-> "open",
     assigned_to |-> None, created_at |-> at, updated_at |-> at]

\* insert({ ticket_id, sender_id, content })
NewMessage(id, ticketId, senderId, content, at) ==
    [id |-> id, ticket_id |-> ticketId, sender_id |-> senderId,
     content |-> content, created_at |-> at]

\* .order(key, { ascending }): r placed among rows that are in order, after
\* the rows that have its key.
RECURSIVE Inserted(_, _, _, _)
Inserted(s, r, key, asc) ==
    IF s = << >> THEN <<r>>
    ELSE IF (asc /\ r[key] < Head(s)[key]) \/ (~asc /\ r[key] > Head(s)[key])
         THEN <<r>> \o s
         ELSE <<Head(s)>> \o Inserted(Tail(s), r, key, asc)

\* Mutant of OrderBy: the rows come back as the table holds them.
OrderBy_TableOrder(rows, key, asc) == rows

RECURSIVE OrderBy(_, _, _)
OrderBy(rows, key, asc) ==
    IF rows = << >> THEN << >>
    ELSE Inserted(OrderBy(SubSeq(rows, 1, Len(rows) - 1), key, asc),
                  rows[Len(rows)], key, asc)

\* from('messages').select('*').eq('ticket_id', id)
MessagesOf(id) == SelectSeq(messages, LAMBDA m : m.ticket_id = id)

\* from('profiles').select('*').eq('id', u).single(): null when there is no row.
ProfileOf(u) ==
    IF u \in DOMAIN profiles
    THEN IF profiles[u] = NullRole THEN NoProfile ELSE ProfileRow(u, profiles[u])
    ELSE NoProfile

\* from('profiles').select('*').in('id', ids)
ProfilesIn(ids) == {ProfileOf(u) : u \in ids} \ {NoProfile}

\* customerMap[id]: the profile with this id among those fetched, if any.
Lookup(rows, u) == IF \E p \in rows : p.id = u THEN CHOOSE p \in rows : p.id = u ELSE NoProfile


\* A call begins: the ticket that createTicket returned just before it, if
\* that was the previous call, is remembered.
Called ==
    /\ prev' = IF result.op = "createTicket" THEN result ELSE NoResult
    /\ result' = NoResult
    /\ ncalls' = ncalls + 1

\* The lookups of the running call that were answered with an error.
Down(c, o, lookup) == IF o = "ok" THEN c.down ELSE c.down \cup {lookup}

\* return value; the call is over.
Return(r) == result' = r /\ call' = NoCall

\* The hash path of a ticket on the customer dashboard.
TicketPath(id) == RolePath("customer") \o <<"/", "ticket", "/", ToString(id)>>

coordButLocation == <<backendVars, authVars, subVars, effDeps, navLog, ctlVars>>

\* Another client has written: a result held by this client is no longer
\* the latest word, and the running call did not run alone.
Disturbed ==
    /\ result' = [result EXCEPT !.fresh = FALSE]
    /\ call' = [call EXCEPT !.quiet = FALSE]

\* ------------------------------------------- NewTicketForm and createTicket

\* handleSubmit up to the call of createTicket(subject, user.id, priority,
\* category, message).
CreateTicketCall(subject, priority, category, text) ==
    /\ call.pc = "idle"
    /\ ncalls < MaxCalls
    /\ session # None
    /\ call' = [op |-> "createTicket", pc |-> "ticket", quiet |-> TRUE, clean |-> TRUE,
                subject |-> subject, customerId |-> session, priority |-> priority,
                category |-> category, text |-> text, ticket |-> NoTicket,
                msg |-> "none"]
    /\ Called
    /\ UNCHANGED <<tickets, messages, thread, coordVars, storeVars>>

CreateTicketArgs(c) ==
    [subject |-> c.subject, customerId |-> c.customerId, priority |-> c.priority,
     category |-> c.category, text |-> c.text]

\* createTicket has returned the ticket; handleSubmit closes the form and
\* navigates to the ticket.
CreateTicketDone(c, row, clean) ==
    /\ Return([op |-> "createTicket", ok |-> TRUE, fresh |-> TRUE, ticket |-> row,
               args |-> CreateTicketArgs(c), inserted |-> TRUE, msg |-> c.msg,
               clean |-> clean, quiet |-> c.quiet])
    /\ location' = TicketPath(row.id)

\* createTicket has returned null; handleSubmit reports the failure.
CreateTicketFailed(c) ==
    /\ Return([op |-> "createTicket", ok |-> FALSE, fresh |-> TRUE, ticket |-> NoTicket,
               args |-> CreateTicketArgs(c), inserted |-> c.ticket.id # 0, msg |-> c.msg,
               clean |-> FALSE, quiet |-> c.quiet])
    /\ UNCHANGED location

\* The ticket insert is answered.
CreateTicketInsert ==
    /\ call.op = "createTicket" /\ call.pc = "ticket"
    /\ \E o \in Outcomes :
        /\ Charged(o)
        /\ IF o = "ok"
           THEN LET row == NewTicket(Len(tickets) + 1, call, ServerNow)
                IN  /\ tickets' = Append(tickets, row)
                    /\ IF call.text # ""
                       THEN /\ call' = [call EXCEPT !.pc = "message", !.ticket = row]
                            /\ UNCHANGED <<result, location>>
                       ELSE CreateTicketDone(call, row, call.clean)
           ELSE /\ UNCHANGED tickets
                /\ CreateTicketFailed(call)
    /\ UNCHANGED <<messages, prev, thread, coordButLocation, storeVars>>

\* Mutant of CreateTicketMessage: an error of the message insert makes
\* createTicket return null.
CreateTicketMessage_FailsCall ==
    /\ call.op = "createTicket" /\ call.pc = "message"
    /\ \E o \in Outcomes :
        /\ Charged(o)
        /\ messages' = IF o = "ok"
                       THEN Append(messages, NewMessage(Len(messages) + 1, call.ticket.id,
                                                        call.customerId, call.text, ServerNow))
                       ELSE messages
        /\ IF o # "ok"
           THEN CreateTicketFailed([call EXCEPT !.msg = o])
           ELSE CreateTicketDone([call EXCEPT !.msg = o], call.ticket, call.clean)
    /\ UNCHANGED <<tickets, prev, thread, coordButLocation, storeVars>>

\* The insert of the initial message is answered.
CreateTicketMessage ==
    /\ call.op = "createTicket" /\ call.pc = "message"
    /\ \E o \in Outcomes :
        /\ Charged(o)
        /\ messages' = IF o = "ok"
                       THEN Append(messages, NewMessage(Len(messages) + 1, call.ticket.id,
                                                        call.customerId, call.text, ServerNow))
                       ELSE messages
        /\ IF o = "throw"
           THEN CreateTicketFailed([call EXCEPT !.msg = o])
           ELSE CreateTicketDone([call EXCEPT !.msg = o], call.ticket,
                                 call.clean /\ o = "ok")
    /\ UNCHANGED <<tickets, prev, thread, coordButLocation, storeVars>>

\* --------------------------------------------------- TicketThread, getTicket

\* The thread is mounted for the route's ticket id; its effect calls
\* getTicket(ticketId).
ThreadLoad(id) ==
    /\ call.pc = "idle"
    /\ ncalls < MaxCalls
    /\ call' = [op |-> "getTicket", pc |-> "ticket", quiet |-> TRUE, clean |-> TRUE,
                id |-> id, ticket |-> NoTicket, customer |-> NoProfile,
                assigned |-> NoProfile, msgs |-> << >>, msgsOk |-> FALSE, seen |-> 0,
                senders |-> {}, atts |-> << >>, down |-> {}]
    /\ thread' = [NoThread EXCEPT !.ticketId = id]
    /\ Called
    /\ UNCHANGED <<tickets, messages, coordVars, storeVars>>

\* getTicket returns null because the ticket row could not be fetched;
\* fetchTicket sets the error.
GetTicketNull(c) ==
    /\ Return([op |-> "getTicket", ok |-> FALSE, fresh |-> TRUE, id |-> c.id,
               rowFetched |-> c.ticket.id # 0, threw |-> FALSE, down |-> c.down,
               clean |-> FALSE, quiet |-> c.quiet])
    /\ thread' = [ticketId |-> c.id, shown |-> FALSE, status |-> "none"]

\* A request of getTicket threw: the catch block returns null; fetchTicket
\* sets the error.
GetTicketThrew(c) ==
    /\ Return([op |-> "getTicket", ok |-> FALSE, fresh |-> TRUE, id |-> c.id,
               rowFetched |-> c.ticket.id # 0, threw |-> TRUE, down |-> c.down,
               clean |-> FALSE, quiet |-> c.quiet])
    /\ thread' = [ticketId |-> c.id, shown |-> FALSE, status |-> "none"]

\* The attachment rows of a message, as the select returns them.
AttachmentsOf(rows, mid) == SelectSeq(rows, LAMBDA a : a.message_id = mid)

\* messages.map(message => ({ ...message, sender, attachments }))
Enriched(m, senders, atts) ==
    [id |-> m.id, ticket_id |-> m.ticket_id, sender_id |-> m.sender_id,
     content |-> m.content, created_at |-> m.created_at,
     sender |-> Lookup(senders, m.sender_id), attachments |-> AttachmentsOf(atts, m.id)]

\* getTicket returns the ticket with its related data; fetchTicket keeps it.
GetTicketDone(c, clean) ==
    /\ Return([op |-> "getTicket", ok |-> TRUE, fresh |-> TRUE, id |-> c.id,
               ticket |-> c.ticket, customer |-> c.customer,
               assigned_to_profile |-> c.assigned,
               messages |-> [i \in 1..Len(c.msgs) |->
                                Enriched(c.msgs[i], c.senders, c.atts)],
               unread |-> FALSE, rowFetched |-> TRUE, threw |-> FALSE, down |-> c.down,
               msgsOk |-> c.msgsOk, seen |-> c.seen, clean |-> clean, quiet |-> c.quiet])
    /\ thread' = [ticketId |-> c.id, shown |-> TRUE, status |-> c.ticket.status]

\* The query for the ticket row is answered; .single() answers an error
\* when there is no such row.
GetTicketRow ==
    /\ call.op = "getTicket" /\ call.pc = "ticket"
    /\ \E o \in Outcomes :
        /\ Charged(o)
        /\ IF o = "ok" /\ call.id \in 1..Len(tickets)
           THEN /\ call' = [call EXCEPT !.pc = "customer", !.ticket = tickets[call.id]]
                /\ UNCHANGED <<result, thread>>
           ELSE IF o = "throw" THEN GetTicketThrew(call) ELSE GetTicketNull(call)
    /\ UNCHANGED <<tickets, messages, prev, coordVars, storeVars>>

\* Mutant of GetTicketCustomer: an error of the profile query makes
\* getTicket return null.
GetTicketCustomer_FailsOnError ==
    /\ call.op = "getTicket" /\ call.pc = "customer"
    /\ \E o \in Outcomes :
        /\ Charged(o)
        /\ IF o = "throw"
           THEN GetTicketThrew(call)
           ELSE IF o = "error"
           THEN GetTicketNull(call)
           ELSE /\ call' = [call EXCEPT
                              !.pc = IF call.ticket.assigned_to # None
                                     THEN "assigned" ELSE "messages",
                              !.customer = ProfileOf(call.ticket.customer_id)]
                /\ UNCHANGED <<result, thread>>
    /\ UNCHANGED <<tickets, messages, prev, coordVars, storeVars>>

\* The query for the customer's profile is answered.
GetTicketCustomer ==
    /\ call.op = "getTicket" /\ call.pc = "customer"
    /\ \E o \in Outcomes :
        /\ Charged(o)
        /\ IF o = "throw"
           THEN GetTicketThrew(call)
           ELSE /\ call' = [call EXCEPT
                              !.pc = IF call.ticket.assigned_to # None
                                     THEN "assigned" ELSE "messages",
                              !.customer = IF o = "ok" THEN ProfileOf(call.ticket.customer_id)
                                           ELSE NoProfile,
                              !.clean = call.clean /\ o = "ok",
                              !.down = Down(call, o, "customer")]
                /\ UNCHANGED <<result, thread>>
    /\ UNCHANGED <<tickets, messages, prev, coordVars, storeVars>>

\* The query for the assignee's profile is answered.
GetTicketAssigned ==
    /\ call.op = "getTicket" /\ call.pc = "assigned"
    /\ \E o \in Outcomes :
        /\ Charged(o)
        /\ IF o = "throw"
           THEN GetTicketThrew(call)
           ELSE /\ call' = [call EXCEPT
                              !.pc = "messages",
                              !.assigned = IF o = "ok" THEN ProfileOf(call.ticket.assigned_to)
                                           ELSE NoProfile,
                              !.clean = call.clean /\ o = "ok",
                              !.down = Down(call, o, "assigned")]
                /\ UNCHANGED <<result, thread>>
    /\ UNCHANGED <<tickets, messages, prev, coordVars, storeVars>>

\* The query for the ticket's messages, ordered by created_at ascending,
\* is answered; with no message getTicket makes no further request.
GetTicketMessages ==
    /\ call.op = "getTicket" /\ call.pc = "messages"
    /\ \E o \in Outcomes :
        /\ Charged(o)
        /\ IF o = "throw"
           THEN GetTicketThrew(call)
           ELSE LET rows == IF o = "ok"
                            THEN OrderBy(MessagesOf(call.id), "created_at", TRUE)
                            ELSE << >>
                    c == [call EXCEPT !.pc = "senders", !.msgs = rows,
                                      !.msgsOk = (o = "ok"), !.seen = Len(messages),
                                      !.clean = call.clean /\ o = "ok",
                                      !.down = Down(call, o, "messages")]
                IN  IF rows = << >>
                    THEN GetTicketDone(c, c.clean)
                    ELSE call' = c /\ UNCHANGED <<result, thread>>
    /\ UNCHANGED <<tickets, messages, prev, coordVars, storeVars>>

\* The query for the senders' profiles is answered.
GetTicketSenders ==
    /\ call.op = "getTicket" /\ call.pc = "senders"
    /\ \E o \in Outcomes :
        /\ Charged(o)
        /\ IF o = "throw"
           THEN GetTicketThrew(call)
           ELSE /\ call' = [call EXCEPT
                              !.pc = "attachments",
                              !.senders = IF o = "ok"
                                          THEN ProfilesIn({call.msgs[i].sender_id :
                                                              i \in 1..Len(call.msgs)})
                                          ELSE {},
                              !.clean = call.clean /\ o = "ok",
                              !.down = Down(call, o, "senders")]
                /\ UNCHANGED <<result, thread>>
    /\ UNCHANGED <<tickets, messages, prev, coordVars, storeVars>>

\* The query for the messages' attachments is answered; getTicket returns.
GetTicketAttachments ==
    /\ call.op = "getTicket" /\ call.pc = "attachments"
    /\ \E o \in Outcomes :
        /\ Charged(o)
        /\ IF o = "throw"
           THEN GetTicketThrew(call)
           ELSE GetTicketDone(
                    [call EXCEPT
                       !.atts = IF o = "ok"
                                THEN SelectSeq(attachments,
                                               LAMBDA a : \E i \in 1..Len(call.msgs) :
                                                              a.message_id = call.msgs[i].id)
                                ELSE << >>,
                       !.down = Down(call, o, "attachments")],
                    call.clean /\ o = "ok")
    /\ UNCHANGED <<tickets, messages, prev, coordVars, storeVars>>

\* No field to update: the {} of createMessage's updateTicket(ticketId, {}).
NoUpdates == << >>

\* Mutant of UpdateTicket: updated_at is sent only when the caller gave it.
UpdateTicket_KeepsStamp(row, updates, at) ==
    [f \in DOMAIN row |-> IF f \in DOMAIN updates THEN updates[f] ELSE row[f]]

\* updateTicket(ticketId, updates): the row after
\* .update({ ...updates, updated_at: new Date().toISOString() }), where
\* updates maps some field names to values and at is the client's time.
UpdateTicket(row, updates, at) ==
    [f \in DOMAIN row |-> IF f = "updated_at" THEN at
                          ELSE IF f \in DOMAIN updates THEN updates[f]
                          ELSE row[f]]

\* updateTicket(ticketId, { status }).
Updated(row, status, at) == UpdateTicket(row, [status |-> status], at)

\* ------------------------------------------------ TicketThread's handlers

Replies == {"r1"}

\* handleSubmitReply up to its first request: the update that reopens the
\* ticket when the ticket held locally is resolved and the dashboard is the
\* customer's, else the message insert. stored notes the status the backend
\* holds at this moment.
ReplySubmit(content) ==
    /\ call.pc = "idle"
    /\ ncalls < MaxCalls
    /\ thread.shown
    /\ session # None
    /\ call' = [op |-> "reply", quiet |-> TRUE, clean |-> TRUE,
                pc |-> IF thread.status = "resolved" /\ userType = "customer"
                       THEN "reopen" ELSE "insert",
                id |-> thread.ticketId, senderId |-> session, content |-> content,
                role |-> userType,
                stored |-> tickets[thread.ticketId].status,
                reopened |-> FALSE, message |-> NoMessage, touch |-> "none"]
    /\ Called
    /\ UNCHANGED <<tickets, messages, thread, coordVars, storeVars>>

\* updateTicket(ticketId, { status: 'open' }) is answered; its return value
\* is not looked at and the local ticket is set to open.
ReplyReopen ==
    /\ call.op = "reply" /\ call.pc = "reopen"
    /\ \E o \in Outcomes :
        /\ Charged(o)
        /\ IF o = "ok"
           THEN \E at \in ClientClocks :
                    tickets' = [tickets EXCEPT ![call.id] = Updated(@, "open", at)]
           ELSE UNCHANGED tickets
        /\ call' = [call EXCEPT !.pc = "insert", !.reopened = (o = "ok"),
                                !.clean = call.clean /\ o = "ok"]
    /\ thread' = [thread EXCEPT !.status = "open"]
    /\ UNCHANGED <<messages, result, prev, coordVars, storeVars>>

ReplyResult(c, ok, clean) ==
    [op |-> "reply", ok |-> ok, fresh |-> TRUE, id |-> c.id, message |-> c.message,
     role |-> c.role, stored |-> c.stored, reopened |-> c.reopened,
     touch |-> c.touch, clean |-> clean, quiet |-> c.quiet]

\* createMessage's insert is answered; on failure createMessage returns
\* null and the handler ends.
ReplyInsert ==
    /\ call.op = "reply" /\ call.pc = "insert"
    /\ \E o \in Outcomes :
        /\ Charged(o)
        /\ IF o = "ok"
           THEN LET row == NewMessage(Len(messages) + 1, call.id, call.senderId,
                                      call.content, ServerNow)
                IN  /\ messages' = Append(messages, row)
                    /\ call' = [call EXCEPT !.pc = "touch", !.message = row]
                    /\ UNCHANGED result
           ELSE /\ UNCHANGED messages
                /\ Return(ReplyResult(call, FALSE, FALSE))
    /\ UNCHANGED <<tickets, prev, thread, coordVars, storeVars>>

\* Mutant of ReplyTouch: createMessage returns null when its updateTicket
\* did not succeed.
ReplyTouch_FailsOnError ==
    /\ call.op = "reply" /\ call.pc = "touch"
    /\ \E o \in Outcomes :
        /\ Charged(o)
        /\ IF o = "ok"
           THEN \E at \in ClientClocks :
                    tickets' = [tickets EXCEPT
                                  ![call.id] = UpdateTicket(@, NoUpdates, at)]
           ELSE UNCHANGED tickets
        /\ Return(ReplyResult([call EXCEPT !.touch = o], o = "ok", call.clean /\ o = "ok"))
    /\ UNCHANGED <<messages, prev, thread, coordVars, storeVars>>

\* createMessage's updateTicket(ticketId, {}) is answered; createMessage
\* returns the message and the handler appends it to the thread.
ReplyTouch ==
    /\ call.op = "reply" /\ call.pc = "touch"
    /\ \E o \in Outcomes :
        /\ Charged(o)
        /\ IF o = "ok"
           THEN \E at \in ClientClocks :
                    tickets' = [tickets EXCEPT
                                  ![call.id] = UpdateTicket(@, NoUpdates, at)]
           ELSE UNCHANGED tickets
        /\ Return(ReplyResult([call EXCEPT !.touch = o], TRUE, call.clean /\ o = "ok"))
    /\ UNCHANGED <<messages, prev, thread, coordVars, storeVars>>

\* handleStatusChange(newStatus), offered on the admin dashboard, up to its
\* request.
StatusChangeCall(status) ==
    /\ call.pc = "idle"
    /\ ncalls < MaxCalls
    /\ thread.shown
    /\ userType = "admin"
    /\ call' = [op |-> "setStatus", pc |-> "update", quiet |-> TRUE, clean |-> TRUE,
                id |-> thread.ticketId, status |-> status]
    /\ Called
    /\ UNCHANGED <<tickets, messages, thread, coordVars, storeVars>>

\* updateTicket(ticketId, { status: newStatus }) is answered; the local
\* ticket follows only when a row came back.
StatusChangeUpdate ==
    /\ call.op = "setStatus" /\ call.pc = "update"
    /\ \E o \in Outcomes :
        /\ Charged(o)
        /\ IF o = "ok"
           THEN /\ \E at \in ClientClocks :
                       tickets' = [tickets EXCEPT ![call.id] = Updated(@, call.status, at)]
                /\ thread' = [thread EXCEPT !.status = call.status]
           ELSE UNCHANGED <<tickets, thread>>
        /\ Return([op |-> "setStatus", ok |-> o = "ok", fresh |-> TRUE, id |-> call.id,
                   status |-> call.status, clean |-> o = "ok", quiet |-> call.quiet])
    /\ UNCHANGED <<messages, prev, coordVars, storeVars>>

\* ------------------------------------------------------------ other clients

\* Another client's updateTicket(id, { status }) is applied.
OtherUpdateStatus(id, status) ==
    /\ ncalls < MaxCalls
    /\ id \in 1..Len(tickets)
    /\ tickets[id].status # status
    /\ \E at \in ClientClocks :
           tickets' = [tickets EXCEPT ![id] = Updated(@, status, at)]
    /\ Disturbed
    /\ ncalls' = ncalls + 1
    /\ UNCHANGED <<messages, prev, thread, coordVars, storeVars>>

\* Another client's createMessage(id, sender, content) is applied.
OtherCreateMessage(id, sender) ==
    /\ ncalls < MaxCalls
    /\ id \in 1..Len(tickets)
    /\ messages' = Append(messages, NewMessage(Len(messages) + 1, id, sender, "r2", ServerNow))
    /\ tickets' = [tickets EXCEPT ![id] = UpdateTicket(@, NoUpdates, ServerNow)]
    /\ Disturbed
    /\ ncalls' = ncalls + 1
    /\ UNCHANGED <<prev, thread, coordVars, storeVars>>

\* ---------------------------------------------------- TicketList, getTickets

Filters == Statuses \cup {"all"}

\* fetchTickets: getTickets(userType, status) up to its first request, the
\* current-user lookup for a customer and the ticket query otherwise.
TicketListLoad(status) ==
    /\ call.pc = "idle"
    /\ ncalls < MaxCalls
    /\ userType # NullRole
    /\ call' = [op |-> "getTickets", quiet |-> TRUE, clean |-> TRUE,
                pc |-> IF userType = "customer" THEN "user" ELSE "query",
                role |-> userType, status |-> status, uid |-> None,
                rows |-> << >>, customers |-> {}, assigned |-> {},
                counts |-> << >>, last |-> << >>, down |-> {}, lastDown |-> {}]
    /\ Called
    /\ UNCHANGED <<tickets, messages, thread, coordVars, storeVars>>

\* Mutant of Scope: the status filter is not applied.
Scope_NoStatusFilter(c) ==
    SelectSeq(tickets, LAMBDA t : c.uid # None => t.customer_id = c.uid)

\* The query as built: the status filter when one is given, and the
\* customer_id filter when the current-user lookup gave a user.
Scope(c) ==
    SelectSeq(tickets,
              LAMBDA t : /\ (c.status # "all" => t.status = c.status)
                         /\ (c.uid # None => t.customer_id = c.uid))

\* Mutant of Decorated: the tickets are mapped in reverse.
Decorated_Reversed(c, i, last) ==
    LET t == c.rows[Len(c.rows) + 1 - i]
    IN  [id |-> t.id, subject |-> t.subject, customer_id |-> t.customer_id,
         priority |-> t.priority, category |-> t.category, status |-> t.status,
         assigned_to |-> t.assigned_to, created_at |-> t.created_at,
         updated_at |-> t.updated_at,
         customer |-> Lookup(c.customers, t.customer_id),
         assigned_to_profile |-> IF t.assigned_to # None
                                 THEN Lookup(c.assigned, t.assigned_to) ELSE NoProfile,
         message_count |-> IF t.id \in DOMAIN c.counts THEN c.counts[t.id] ELSE 0,
         last_message |-> last[i],
         messages |-> << >>, unread |-> FALSE]

\* One ticket of the result.
Decorated(c, i, last) ==
    LET t == c.rows[i]
    IN  [id |-> t.id, subject |-> t.subject, customer_id |-> t.customer_id,
         priority |-> t.priority, category |-> t.category, status |-> t.status,
         assigned_to |-> t.assigned_to, created_at |-> t.created_at,
         updated_at |-> t.updated_at,
         customer |-> Lookup(c.customers, t.customer_id),
         assigned_to_profile |-> IF t.assigned_to # None
                                 THEN Lookup(c.assigned, t.assigned_to) ELSE NoProfile,
         message_count |-> IF t.id \in DOMAIN c.counts THEN c.counts[t.id] ELSE 0,
         last_message |-> last[i],
         messages |-> << >>, unread |-> FALSE]

\* The value getTickets returns (list) with what fetchTickets makes of it:
\* getTickets always returns normally, so fetchTickets runs
\* setTickets(fetchedTickets); setError(null) and never its catch block.
GetTicketsResult(c, list, failed, clean) ==
    [op |-> "getTickets", ok |-> TRUE, fresh |-> TRUE, role |-> c.role,
     status |-> c.status, uid |-> c.uid, rows |-> c.rows, list |-> list,
     error |-> None,
     failed |-> failed, threw |-> FALSE, down |-> c.down, lastDown |-> c.lastDown,
     clean |-> clean, quiet |-> c.quiet]

\* return [] after an error of the ticket query.
GetTicketsNone(c) == Return(GetTicketsResult(c, << >>, TRUE, FALSE))

\* A request of getTickets threw: the catch block returns [].
GetTicketsThrew(c) ==
    Return([GetTicketsResult(c, << >>, TRUE, FALSE) EXCEPT !.threw = TRUE])

\* supabase.auth.getUser() is answered, with the user or without one.
GetTicketsUser ==
    /\ call.op = "getTickets" /\ call.pc = "user"
    /\ \E o \in Outcomes :
        /\ Charged(o)
        /\ IF o = "throw"
           THEN GetTicketsThrew(call)
           ELSE /\ call' = [call EXCEPT !.pc = "query",
                                        !.uid = IF o = "ok" THEN session ELSE None,
                                        !.clean = call.clean /\ o = "ok",
                                        !.down = Down(call, o, "user")]
                /\ UNCHANGED result
    /\ UNCHANGED <<tickets, messages, prev, thread, coordVars, storeVars>>

\* The ticket query, ordered by updated_at descending, is answered.
GetTicketsQuery ==
    /\ call.op = "getTickets" /\ call.pc = "query"
    /\ \E o \in Outcomes :
        /\ Charged(o)
        /\ IF o # "ok"
           THEN IF o = "throw" THEN GetTicketsThrew(call) ELSE GetTicketsNone(call)
           ELSE LET rows == OrderBy(Scope(call), "updated_at", FALSE)
                IN  IF rows = << >>
                    THEN Return(GetTicketsResult(call, << >>, FALSE, call.clean))
                    ELSE /\ call' = [call EXCEPT !.pc = "customers", !.rows = rows]
                         /\ UNCHANGED result
    /\ UNCHANGED <<tickets, messages, prev, thread, coordVars, storeVars>>

\* Mutant of GetTicketsCustomers: an error of the profile query ends the
\* call like an error of the ticket query.
GetTicketsCustomers_FailsOnError ==
    /\ call.op = "getTickets" /\ call.pc = "customers"
    /\ \E o \in Outcomes :
        /\ Charged(o)
        /\ IF o = "throw"
           THEN GetTicketsThrew(call)
           ELSE IF o = "error"
           THEN GetTicketsNone(call)
           ELSE /\ call' = [call EXCEPT
                              !.pc = IF \E i \in 1..Len(call.rows) :
                                            call.rows[i].assigned_to # None
                                     THEN "assigned" ELSE "count",
                              !.customers = ProfilesIn({call.rows[i].customer_id :
                                                           i \in 1..Len(call.rows)})]
                /\ UNCHANGED result
    /\ UNCHANGED <<tickets, messages, prev, thread, coordVars, storeVars>>

\* The query for the customers' profiles is answered; the assignees are
\* asked for only when a ticket has one.
GetTicketsCustomers ==
    /\ call.op = "getTickets" /\ call.pc = "customers"
    /\ \E o \in Outcomes :
        /\ Charged(o)
        /\ IF o = "throw"
           THEN GetTicketsThrew(call)
           ELSE /\ call' = [call EXCEPT
                              !.pc = IF \E i \in 1..Len(call.rows) :
                                            call.rows[i].assigned_to # None
                                     THEN "assigned" ELSE "count",
                              !.customers = IF o = "ok"
                                            THEN ProfilesIn({call.rows[i].customer_id :
                                                                i \in 1..Len(call.rows)})
                                            ELSE {},
                              !.clean = call.clean /\ o = "ok",
                              !.down = Down(call, o, "customers")]
                /\ UNCHANGED result
    /\ UNCHANGED <<tickets, messages, prev, thread, coordVars, storeVars>>

\* The query for the assignees' profiles is answered.
GetTicketsAssigned ==
    /\ call.op = "getTickets" /\ call.pc = "assigned"
    /\ \E o \in Outcomes :
        /\ Charged(o)
        /\ IF o = "throw"
           THEN GetTicketsThrew(call)
           ELSE /\ call' = [call EXCEPT
                              !.pc = "count",
                              !.assigned = IF o = "ok"
                                           THEN ProfilesIn({call.rows[i].assigned_to :
                                                               i \in 1..Len(call.rows)}
                                                           \ {None})
                                           ELSE {},
                              !.clean = call.clean /\ o = "ok",
                              !.down = Down(call, o, "assigned")]
                /\ UNCHANGED result
    /\ UNCHANGED <<tickets, messages, prev, thread, coordVars, storeVars>>

\* Mutant of Counted: every fetched row is counted for every ticket.
Counted_EveryRow(ids) ==
    [t \in ids |-> Cardinality({k \in 1..Len(messages) : messages[k].ticket_id \in ids})]

\* messageCountMap: for each ticket id the number of fetched rows with it.
Counted(ids) ==
    [t \in ids |-> Cardinality({k \in 1..Len(messages) : messages[k].ticket_id = t})]

\* The query for the ticket ids of the tickets' messages is answered.
GetTicketsCount ==
    /\ call.op = "getTickets" /\ call.pc = "count"
    /\ \E o \in Outcomes :
        /\ Charged(o)
        /\ IF o = "throw"
           THEN GetTicketsThrew(call)
           ELSE /\ call' = [call EXCEPT
                              !.pc = "last",
                              !.counts = IF o = "ok"
                                         THEN Counted({call.rows[i].id : i \in 1..Len(call.rows)})
                                         ELSE << >>,
                              !.clean = call.clean /\ o = "ok",
                              !.down = Down(call, o, "count")]
                /\ UNCHANGED result
    /\ UNCHANGED <<tickets, messages, prev, thread, coordVars, storeVars>>

\* .eq('ticket_id', id).order('created_at', { ascending: false }).limit(1),
\* with the sender embedded.
LastMessage(id) ==
    LET rows == OrderBy(MessagesOf(id), "created_at", FALSE)
    IN  IF rows = << >> THEN NoMessage
        ELSE [id |-> rows[1].id, ticket_id |-> rows[1].ticket_id,
              sender_id |-> rows[1].sender_id, content |-> rows[1].content,
              created_at |-> rows[1].created_at, sender |-> ProfileOf(rows[1].sender_id)]

\* The last-message query for the next ticket of the loop is answered;
\* after the last one getTickets returns the decorated tickets.
GetTicketsLast ==
    /\ call.op = "getTickets" /\ call.pc = "last"
    /\ \E o \in Outcomes :
        /\ Charged(o)
        /\ IF o = "throw"
           THEN GetTicketsThrew(call)
           ELSE LET i == Len(call.last) + 1
                    last == Append(call.last,
                                   IF o = "ok" THEN LastMessage(call.rows[i].id) ELSE NoMessage)
                    clean == call.clean /\ o = "ok"
                    c == [call EXCEPT !.last = last, !.clean = clean,
                                      !.lastDown = IF o = "ok" THEN call.lastDown
                                                   ELSE call.lastDown \cup {i}]
                IN  IF i = Len(call.rows)
                    THEN Return(GetTicketsResult(c,
                                    [k \in 1..Len(call.rows) |-> Decorated(call, k, last)],
                                    FALSE, clean))
                    ELSE /\ call' = c
                         /\ UNCHANGED result
    /\ UNCHANGED <<tickets, messages, prev, thread, coordVars, storeVars>>

\* ------------------------------------------------------- the dashboards' runs

\* Stored tickets: one of the customer who signs in here, open or resolved,
\* and one of another customer, assigned to the admin.
InitTickets ==
    {<<[id |-> 1, subject |-> "s1", customer_id |-> "u1", priority |-> "low",
        category |-> "General", status |-> st, assigned_to |-> None,
        created_at |-> 1, updated_at |-> 1],
       [id |-> 2, subject |-> "s2", customer_id |-> OtherCustomer, priority |-> "high",
        category |-> "Billing", status |-> "pending", assigned_to |-> "u2",
        created_at |-> 2, updated_at |-> 2]>> : st \in {"open", "resolved"}}

FileNames == {"a.txt", "b.txt"}

\* `${messageId}/${file.name}`
FilePath(messageId, name) == <<ToString(messageId), "/", name>>

\* insert({ message_id, name, file_path, size }): the stored row.
NewAttachment(id, messageId, name, size) ==
    [id |-> id, message_id |-> messageId, name |-> name,
     file_path |-> FilePath(messageId, name), size |-> size]

\* One stored attachment, of the first message of ticket 1, and its blob.
InitAttachments == <<NewAttachment(1, 1, "a.txt", 1)>>
InitBlobs == {FilePath(1, "a.txt")}

\* Stored messages: three, whose order in the table is not their order in
\* time.
InitMessages ==
    <<NewMessage(1, 1, "u1", "m1", 3), NewMessage(2, 2, OtherCustomer, "m1", 2),
      NewMessage(3, 1, "u2", "r1", 1)>>

\* A Ready coordinator with a signed-in customer or admin on their
\* dashboard, before any ticket component is mounted.
InitAgg ==
    /\ registered = Users
    /\ profiles = [u \in Users |-> IF u = "u1" THEN "customer" ELSE "admin"]
    /\ session \in Users
    /\ backendSession = session
    /\ pending = << >>
    /\ profile = ProfileRow(session, profiles[session])
    /\ userType = profiles[session]
    /\ isLoading = FALSE
    /\ isInitialized = TRUE
    /\ subscribed = 1
    /\ unsubCalls = 0
    /\ tornDown = FALSE
    /\ location = RolePath(userType)
    /\ effDeps = <<TRUE, userType, TRUE, FALSE, Pathname(location)>>
    /\ navLog = {}
    /\ proc = [p \in Procs |-> IF p = "boot" THEN [IdleProc EXCEPT !.kind = "boot", !.pc = "done"]
                               ELSE IdleProc]
    /\ nstim = 0
    /\ tickets \in InitTickets
    /\ messages = InitMessages
    /\ attachments = InitAttachments
    /\ blobs = InitBlobs
    /\ call = NoCall
    /\ result = NoResult
    /\ prev = NoResult
    /\ thread = NoThread
    /\ ncalls = 0

NextAgg ==
    \/ \E su \in Subjects, pr \in Priorities, ca \in Categories, tx \in Texts :
           CreateTicketCall(su, pr, ca, tx)
    \/ CreateTicketInsert
    \/ CreateTicketMessage
    \/ \E id \in 1..(Len(tickets) + 1) : ThreadLoad(id)
    \/ GetTicketRow
    \/ GetTicketCustomer
    \/ GetTicketAssigned
    \/ GetTicketMessages
    \/ GetTicketSenders
    \/ GetTicketAttachments
    \/ \E content \in Replies : ReplySubmit(content)
    \/ ReplyReopen
    \/ ReplyInsert
    \/ ReplyTouch
    \/ \E st \in Statuses : StatusChangeCall(st)
    \/ StatusChangeUpdate
    \/ \E id \in 1..Len(tickets), st \in Statuses : OtherUpdateStatus(id, st)
    \/ \E id \in 1..Len(tickets), u \in {"u2"} : OtherCreateMessage(id, u)
    \/ \E st \in Filters : TicketListLoad(st)
    \/ GetTicketsUser
    \/ GetTicketsQuery
    \/ GetTicketsCustomers
    \/ GetTicketsAssigned
    \/ GetTicketsCount
    \/ GetTicketsLast

SpecAgg == InitAgg /\ [][NextAgg]_vars

\* ------------------------------------------------- updateTicket on its own

\* Partial<Ticket> arguments: no field, one field, two fields.
UpdateSets ==
    {NoUpdates, [status |-> "resolved"], [priority |-> "medium", assigned_to |-> "u1"]}

\* updateTicket(ticketId, updates) up to its request; the timestamp is taken
\* before the request is sent.
UpdateTicketCall(id, updates) ==
    /\ call.pc = "idle"
    /\ ncalls < MaxCalls
    /\ \E at \in ClientClocks :
           call' = [op |-> "updateTicket", pc |-> "update", quiet |-> TRUE,
                    id |-> id, updates |-> updates, at |-> at]
    /\ Called
    /\ UNCHANGED <<tickets, messages, thread, coordVars, storeVars>>

\* .update(...).eq('id', ticketId).select().single() is answered: the
\* updated row, or an error when the backend refuses or no row has the id;
\* updateTicket returns the row or null.
UpdateTicketAnswer ==
    /\ call.op = "updateTicket" /\ call.pc = "update"
    /\ \E o \in Outcomes :
        /\ Charged(o)
        /\ IF o = "ok" /\ call.id \in 1..Len(tickets)
           THEN LET row == UpdateTicket(tickets[call.id], call.updates, call.at)
                IN  /\ tickets' = [tickets EXCEPT ![call.id] = row]
                    /\ Return([op |-> "updateTicket", ok |-> TRUE, fresh |-> TRUE,
                               id |-> call.id, updates |-> call.updates, outcome |-> o,
                               row |-> row, quiet |-> call.quiet])
           ELSE /\ UNCHANGED tickets
                /\ Return([op |-> "updateTicket", ok |-> FALSE, fresh |-> TRUE,
                           id |-> call.id, updates |-> call.updates, outcome |-> o,
                           row |-> NoTicket, quiet |-> call.quiet])
    /\ UNCHANGED <<messages, prev, thread, coordVars, storeVars>>

\* updateTicket called directly, for stored and unknown ticket ids, while
\* another client updates tickets.
NextUpd ==
    \/ \E id \in 1..(Len(tickets) + 1), u \in UpdateSets : UpdateTicketCall(id, u)
    \/ UpdateTicketAnswer
    \/ \E id \in 1..Len(tickets), st \in Statuses : OtherUpdateStatus(id, st)

SpecUpd == InitAgg /\ [][NextUpd]_vars

\* ------------------------------------------ tickets written under two clocks

\* How far a client's clock may be behind the backend's.
MaxSkew == 2

\* What new Date() may give on a client whose clock is not ahead of the
\* backend's and at most MaxSkew behind it.
SkewedClocks == {t \in 0..ServerNow : t + MaxSkew >= ServerNow}

\* updateTicket(ticketId, updates) up to its request, on such a client.
UpdateTicketCallSkewed(id, updates) ==
    /\ call.pc = "idle"
    /\ ncalls < MaxCalls
    /\ \E at \in SkewedClocks :
           call' = [op |-> "updateTicket", pc |-> "update", quiet |-> TRUE,
                    id |-> id, updates |-> updates, at |-> at]
    /\ Called
    /\ UNCHANGED <<tickets, messages, thread, coordVars, storeVars>>

\* createTicket and updateTicket called in any order; createMessage writes
\* tickets only through updateTicket(ticketId, {}), the first of UpdateSets.
NextClock ==
    \/ \E su \in Subjects, pr \in Priorities, ca \in Categories, tx \in Texts :
           CreateTicketCall(su, pr, ca, tx)
    \/ CreateTicketInsert
    \/ CreateTicketMessage
    \/ \E id \in 1..Len(tickets), u \in UpdateSets : UpdateTicketCallSkewed(id, u)
    \/ UpdateTicketAnswer

SpecClock == InitAgg /\ [][NextClock]_vars

\* --------------------------------------------- uploadAttachment on its own

FileSizes == {1}

\* uploadAttachment(file, messageId) up to its first request, the upload to
\* the bucket at `${messageId}/${file.name}`.
UploadCall(name, size, messageId) ==
    /\ call.pc = "idle"
    /\ ncalls < MaxCalls
    /\ call' = [op |-> "uploadAttachment", pc |-> "upload", quiet |-> TRUE,
                name |-> name, size |-> size, messageId |-> messageId,
                filePath |-> FilePath(messageId, name), stored |-> FALSE]
    /\ Called
    /\ UNCHANGED <<tickets, messages, thread, coordVars, storeVars>>

UploadResult(c, ok, row) ==
    [op |-> "uploadAttachment", ok |-> ok, fresh |-> TRUE, name |-> c.name,
     messageId |-> c.messageId, filePath |-> c.filePath, stored |-> c.stored,
     row |-> row, quiet |-> c.quiet]

\* No attachment row.
NoAttachment == [id |-> 0]

\* Mutant of UploadStore: the record insert follows whatever the upload
\* answered.
UploadStore_InsertsAnyway ==
    /\ call.op = "uploadAttachment" /\ call.pc = "upload"
    /\ \E o \in Outcomes :
        /\ Charged(o)
        /\ IF o = "throw"
           THEN /\ UNCHANGED blobs
                /\ Return(UploadResult(call, FALSE, NoAttachment))
           ELSE LET done == o = "ok" /\ call.filePath \notin blobs
                IN  /\ blobs' = IF done THEN blobs \cup {call.filePath} ELSE blobs
                    /\ call' = [call EXCEPT !.pc = "insert", !.stored = done]
                    /\ UNCHANGED result
    /\ UNCHANGED <<tickets, messages, attachments, prev, thread, coordVars>>

\* The upload is answered: the blob is stored, or the bucket answers an
\* error (upload() does not replace an object that exists at the path) or
\* the request throws, and uploadAttachment returns null.
UploadStore ==
    /\ call.op = "uploadAttachment" /\ call.pc = "upload"
    /\ \E o \in Outcomes :
        /\ Charged(o)
        /\ IF o = "ok" /\ call.filePath \notin blobs
           THEN /\ blobs' = blobs \cup {call.filePath}
                /\ call' = [call EXCEPT !.pc = "insert", !.stored = TRUE]
                /\ UNCHANGED result
           ELSE /\ UNCHANGED blobs
                /\ Return(UploadResult(call, FALSE, NoAttachment))
    /\ UNCHANGED <<tickets, messages, attachments, prev, thread, coordVars>>

\* The insert of the attachment record is answered; uploadAttachment
\* returns the row, or null with the blob left in the bucket.
UploadInsert ==
    /\ call.op = "uploadAttachment" /\ call.pc = "insert"
    /\ \E o \in Outcomes :
        /\ Charged(o)
        /\ IF o = "ok"
           THEN LET row == NewAttachment(Len(attachments) + 1, call.messageId,
                                         call.name, call.size)
                IN  /\ attachments' = Append(attachments, row)
                    /\ Return(UploadResult(call, TRUE, row))
           ELSE /\ UNCHANGED attachments
                /\ Return(UploadResult(call, FALSE, NoAttachment))
    /\ UNCHANGED <<tickets, messages, blobs, prev, thread, coordVars>>

\* uploadAttachment called directly for the stored messages.
NextUp ==
    \/ \E name \in FileNames, size \in FileSizes, mid \in 1..Len(messages) :
           UploadCall(name, size, mid)
    \/ UploadStore
    \/ UploadInsert

SpecUp == InitAgg /\ [][NextUp]_vars

\* ------------------------------------------------------------------ claims

Resolvers == Handlers \cup {"boot"}

\* A run of fetchOrCreateProfile for u that has returned and met no failing request.
FinishedClean(p, u) ==
    /\ proc[p].kind \in {"boot", "event"}
    /\ proc[p].pc = "done"
    /\ proc[p].uid = u
    /\ ~proc[p].bad

\* C1: when two runs of fetchOrCreateProfile for the same identity (one
\* with an e-mail) have both returned with no failing request, the profiles
\* table holds the row of that identity and both runs returned a profile with
\* that id, also for the run whose insert was refused with 23505.
C1_ResolutionIdempotent ==
    \A u \in EmailUsers : \A p, q \in Resolvers :
        (p # q /\ FinishedClean(p, u) /\ FinishedClean(q, u))
        => /\ profiles[u] # NullRole
           /\ proc[p].ret = u
           /\ proc[q].ret = u

\* C1 witness: two callbacks resolved the profile of u1 at the same time, one
\* of them inserted the row and the other got the conflict and adopted it.
C1_Witness ==
    /\ FinishedClean("h1", "u1") /\ FinishedClean("h2", "u1")
    /\ proc["h1"].conf # proc["h2"].conf
    /\ proc["h1"].ret = "u1" /\ proc["h2"].ret = "u1"

Ready == isInitialized /\ ~isLoading

\* C3: a coordinator that is not unmounted first always eventually reaches
\* Ready (initialized and not loading), whatever the session fetch and
\* the profile resolution of its bootstrapping answer.
C3_EventuallyReady == <>(Ready \/ tornDown)

\* C3 witness: Ready was reached although a request of bootstrapping failed.
C3_Witness ==
    /\ Ready /\ ~tornDown
    /\ proc["boot"].pc = "done" /\ proc["boot"].bad

\* C4: every redirect the navigation effect issued was issued with
\* initialized = true and loading = false.
C4_NoEffectRedirectWhileLoading ==
    \A n \in navLog : n.by = "effect" => (n.init /\ ~n.loading)

\* C4 witness: the effect has redirected, and a call that sets loading ran.
C4_Witness ==
    /\ \E n \in navLog : n.by = "effect"
    /\ proc["op"].kind # "idle"

\* C6: once the coordinator is torn down no session-change callback of it is
\* registered, and unsubscribe was called at most once.
C6_ReleasedOnTeardown == tornDown => (subscribed = 0 /\ unsubCalls <= 1)

\* C7: when signUp's createProfile returned a profile, the stored profile of
\* that identity has the role signUp was called with. It is stated for the
\* runs in which the signUp call is the only stimulus, so that the only other
\* writer of the profile is this coordinator's own session-change callback
\* (bootstrapping resolved no profile for that identity).
C7_SignUpStoresRequestedRole ==
    (/\ proc["op"].kind = "signUp"
     /\ proc["op"].pc = "done"
     /\ proc["op"].ret = proc["op"].uid
     /\ proc["boot"].uid # proc["op"].uid
     /\ nstim = 1)
    => profiles[proc["op"].uid] = proc["op"].role

\* The navigation function as C5 words it, read by path segments: a path
\* is one of the public paths when it is "/", "/register" or
\* "/forgot-password" or lies below one of the latter two, and it is under
\* "/{role}" when it is that path or lies below it.
PublicPaths == {RegisterPath, ForgotPath}
Below(path, base) == path = base \/ StartsWith(path, base \o <<"/">>)
IntentAsClaimed(auth, role, path) ==
    IF ~auth /\ path # Root /\ \A pub \in PublicPaths : ~Below(path, pub) THEN Root
    ELSE IF auth /\ role # NullRole /\ path = Root THEN RolePath(role)
    ELSE IF auth /\ role # NullRole /\ ~Below(path, RolePath(role)) THEN RolePath(role)
    ELSE NoRedirect

\* The same with the tests the code makes: a path is public when it is
\* "/" or begins with "/register" or "/forgot-password", and it is on the
\* role's dashboard when it begins with "/{role}".
IntentAmended(auth, role, path) ==
    IF /\ ~auth
       /\ path # Root
       /\ \A pub \in PublicPaths : ~StartsWith(path, pub)
    THEN Root
    ELSE IF auth /\ role # NullRole /\ path = Root THEN RolePath(role)
    ELSE IF auth /\ role # NullRole /\ ~StartsWith(path, RolePath(role)) THEN RolePath(role)
    ELSE NoRedirect

Moved(to) == location' = IF to = NoRedirect THEN location ELSE to

\* C5 as stated: every run of the navigation effect of a Ready coordinator
\* leaves the location as the claimed function of (authenticated, role,
\* path) says.
C5_IntentAsClaimed ==
    [][Moved(IntentAsClaimed(isAuthenticated, userType, Pathname(location)))]_vars

\* C5 amended: the navigation intent is that function with "public" read as
\* root or beginning with "/register" or "/forgot-password" and "under
\* /{role}" read as beginning with "/{role}"; the three examples of the
\* claim are among its cases.
C5_IntentAmended ==
    [][/\ Moved(IntentAmended(isAuthenticated, userType, Pathname(location)))
       /\ (~isAuthenticated /\ userType = NullRole /\ location = RolePath("admin"))
              => location' = Root
       /\ (isAuthenticated /\ userType = "customer" /\ location = Root)
              => location' = RolePath("customer")
       /\ (isAuthenticated /\ userType = "admin"
              /\ location = RolePath("admin") \o <<"/", "settings">>)
              => location' = location]_vars

\* C5 witness: the effect has run for an authenticated customer and moved
\* the location to "/customer".
C5_Witness ==
    /\ effDeps = Deps
    /\ isAuthenticated /\ userType = "customer"
    /\ \E n \in navLog : n.by = "effect"
    /\ location = RolePath("customer")

\* C2: every ticket in a list that getTickets returned to the customer
\* dashboard is a ticket of the signed-in customer, whatever the
\* current-user lookup answered.
C2_CustomerSeesOnlyOwnTickets ==
    (result.op = "getTickets" /\ result.role = "customer") =>
        \A i \in 1..Len(result.list) : result.list[i].customer_id = session

\* C8: when a customer's reply is submitted on a ticket stored as resolved,
\* the handler's update to open has been applied by the time the message
\* insert is issued, and when the handler has finished with the message
\* recorded (no other client having written since the submission) the
\* ticket is stored as open and the message is stored.
C8_ReopenedBeforeReply ==
    /\ (call.op = "reply" /\ call.role = "customer" /\ call.stored = "resolved"
            /\ call.pc \in {"insert", "touch"})
          => call.reopened
    /\ (result.op = "reply" /\ result.ok /\ result.role = "customer"
            /\ result.stored = "resolved" /\ result.quiet /\ result.fresh)
          => /\ tickets[result.id].status = "open"
             /\ \E k \in 1..Len(messages) : messages[k] = result.message

\* C9: getTicket(id) right after the createTicket that returned ticket id,
\* with no failing request in either call and no write of another client
\* since createTicket was called, returns the subject, customer_id,
\* priority and category given to createTicket, status open, and exactly
\* one message with the given text, or no message when the text was empty.
C9_RoundTrip ==
    (/\ result.op = "getTicket" /\ result.ok /\ result.clean /\ result.quiet
     /\ prev.op = "createTicket" /\ prev.ok /\ prev.clean /\ prev.quiet /\ prev.fresh
     /\ result.id = prev.ticket.id)
    => /\ result.ticket.subject = prev.args.subject
       /\ result.ticket.customer_id = prev.args.customerId
       /\ result.ticket.priority = prev.args.priority
       /\ result.ticket.category = prev.args.category
       /\ result.ticket.status = "open"
       /\ IF prev.args.text # ""
          THEN /\ Len(result.messages) = 1
               /\ result.messages[1].content = prev.args.text
          ELSE result.messages = << >>

\* C9 witness: such a round trip has happened with a non-empty text.
C9_Witness ==
    /\ result.op = "getTicket" /\ result.ok /\ result.clean /\ result.quiet
    /\ prev.op = "createTicket" /\ prev.ok /\ prev.clean /\ prev.quiet /\ prev.fresh
    /\ result.id = prev.ticket.id
    /\ prev.args.text # ""
    /\ Len(result.messages) = 1

\* The ids of the messages of ticket id among the first n stored messages.
StoredMessageIds(id, n) == {messages[k].id : k \in {j \in 1..n : messages[j].ticket_id = id}}

\* C10: the message list of a ticket that getTicket returned, its message
\* query having been answered with rows, is in ascending order of
\* created_at and holds, once each, exactly the messages of that ticket
\* that were stored when the query was answered.
C10_MessagesOrderedAndExact ==
    (result.op = "getTicket" /\ result.ok /\ result.msgsOk) =>
        /\ \A i, j \in 1..Len(result.messages) :
               i < j => result.messages[i].created_at <= result.messages[j].created_at
        /\ {result.messages[i].id : i \in 1..Len(result.messages)}
               = StoredMessageIds(result.id, result.seen)
        /\ Len(result.messages) = Cardinality(StoredMessageIds(result.id, result.seen))

\* C10 witness: getTicket has returned two or more messages of a ticket
\* whose messages the table holds in another order than that of time, while
\* another ticket has messages too.
C10_Witness ==
    /\ result.op = "getTicket" /\ result.ok /\ result.msgsOk
    /\ Len(result.messages) >= 2
    /\ \E j, k \in 1..result.seen :
           /\ j < k
           /\ messages[j].ticket_id = result.id /\ messages[k].ticket_id = result.id
           /\ messages[j].created_at > messages[k].created_at
    /\ \E k \in 1..result.seen : messages[k].ticket_id # result.id

\* The ids of the tickets in a list that getTickets returned.
ListedIds == {result.list[i].id : i \in 1..Len(result.list)}

\* C11: when getTickets did not end in its error path, with a status filter
\* every returned ticket has that status, and with the filter "all" every
\* stored ticket in the role's scope (all tickets for the admin, the
\* signed-in customer's own for the customer) is returned, whatever its
\* status.
C11_StatusFilter ==
    (result.op = "getTickets" /\ ~result.failed) =>
        /\ result.status \in Statuses =>
               \A i \in 1..Len(result.list) : result.list[i].status = result.status
        /\ result.status = "all" =>
               \A k \in 1..Len(tickets) :
                   (result.role = "customer" => tickets[k].customer_id = session)
                       => tickets[k].id \in ListedIds

\* C11 witness: getTickets returned tickets under a status filter while a
\* stored ticket of another status was left out.
C11_Witness ==
    /\ result.op = "getTickets" /\ ~result.failed
    /\ result.status \in Statuses
    /\ result.list # << >>
    /\ result.quiet /\ result.fresh
    /\ \E k \in 1..Len(tickets) :
           tickets[k].status # result.status /\ tickets[k].id \notin ListedIds

\* C12: the list getTickets returns, when it did not end in its error
\* path, is in descending order of updated_at and holds the tickets the
\* ticket query returned, in the same order and number.
C12_SortedAndOrderKept ==
    (result.op = "getTickets" /\ ~result.failed) =>
        /\ \A i, j \in 1..Len(result.list) :
               i < j => result.list[i].updated_at >= result.list[j].updated_at
        /\ Len(result.list) = Len(result.rows)
        /\ \A i \in 1..Len(result.list) :
               /\ result.list[i].id = result.rows[i].id
               /\ result.list[i].updated_at = result.rows[i].updated_at

\* C12 witness: two tickets were returned, the later-updated first, in
\* another order than the table holds them.
C12_Witness ==
    /\ result.op = "getTickets" /\ ~result.failed
    /\ Len(result.list) >= 2
    /\ result.list[1].updated_at > result.list[2].updated_at
    /\ result.list[1].id > result.list[2].id

\* C13: when no request of getTickets threw, the call returns one ticket per
\* fetched row, in the rows' order, whatever the auxiliary lookups answered:
\* a failed customer-profile query or a customer without a profile leaves
\* customer absent, a failed assignee query or a ticket without assignee
\* leaves assigned_to_profile null, a failed count query leaves
\* message_count 0, and a failed last-message query leaves that ticket's
\* last_message null.
C13_LookupsDegrade ==
    (result.op = "getTickets" /\ ~result.threw) =>
        /\ Len(result.list) = Len(result.rows)
        /\ \A i \in 1..Len(result.list) :
            LET t == result.list[i]
            IN  /\ t.id = result.rows[i].id
                /\ ("customers" \in result.down \/ ProfileOf(t.customer_id) = NoProfile)
                       => t.customer = NoProfile
                /\ ("assigned" \in result.down \/ t.assigned_to = None)
                       => t.assigned_to_profile = NoProfile
                /\ "count" \in result.down => t.message_count = 0
                /\ i \in result.lastDown => t.last_message = NoMessage

\* A ticket whose customer has a profile is returned without it after the
\* profile query failed, and a ticket with messages is returned with no last
\* message after its last-message query failed.
C13_Witness ==
    /\ result.op = "getTickets" /\ ~result.failed
    /\ \E i \in 1..Len(result.list) :
           /\ "customers" \in result.down
           /\ ProfileOf(result.list[i].customer_id) # NoProfile
           /\ result.list[i].customer = NoProfile
    /\ \E i \in 1..Len(result.list) :
           /\ i \in result.lastDown
           /\ MessagesOf(result.list[i].id) # << >>
           /\ result.list[i].last_message = NoMessage

\* C14: createTicket is best effort about the initial message.  When the
\* ticket insert succeeded and the message insert was answered with an
\* error, createTicket returns the created ticket, with status open, and the
\* row is stored; when the ticket insert failed, createTicket returns null
\* and attempted no message insert; with an empty initial text no message
\* insert is attempted.
C14_InitialMessageBestEffort ==
    (result.op = "createTicket") =>
        /\ (result.inserted /\ result.msg # "throw") =>
               /\ result.ok
               /\ result.ticket.status = "open"
               /\ result.ticket.id \in 1..Len(tickets)
               /\ tickets[result.ticket.id].id = result.ticket.id
               /\ (result.quiet /\ result.fresh) =>
                      tickets[result.ticket.id] = result.ticket
        /\ ~result.inserted => (~result.ok /\ result.msg = "none")
        /\ result.args.text = "" => result.msg = "none"
        /\ result.msg # "ok" =>
               \A k \in 1..Len(messages) :
                   (result.ok /\ messages[k].ticket_id = result.ticket.id)
                       => messages[k].content \notin Texts

\* The ticket insert succeeded, the message insert was answered with an
\* error, and createTicket returned the stored ticket, which has no message.
C14_Witness ==
    /\ result.op = "createTicket" /\ result.ok
    /\ result.inserted /\ result.msg = "error"
    /\ result.args.text # ""
    /\ result.ticket.status = "open"
    /\ tickets[result.ticket.id] = result.ticket
    /\ MessagesOf(result.ticket.id) = << >>

\* The step on which createMessage's updateTicket(ticketId, {}) is answered.
TouchStep == call.op = "reply" /\ call.pc = "touch" /\ call'.pc = "idle"

\* C15: createMessage returns the inserted message whenever the message
\* insert succeeded, however its updateTicket(ticketId, {}) was answered;
\* when the insert failed it returns null and issued no ticket update; and
\* the step of the secondary update leaves every field of every ticket but
\* updated_at as it was.
C15_MessageReturnedTouchBestEffort ==
    /\ [](result.op = "reply" =>
             /\ result.message # NoMessage =>
                    /\ result.ok
                    /\ result.touch # "none"
                    /\ result.message.id \in 1..Len(messages)
                    /\ messages[result.message.id] = result.message
             /\ result.message = NoMessage => (~result.ok /\ result.touch = "none"))
    /\ [][TouchStep =>
             /\ Len(tickets') = Len(tickets)
             /\ \A k \in 1..Len(tickets) :
                    tickets'[k] = [tickets[k] EXCEPT !.updated_at = tickets'[k].updated_at]
             /\ messages' = messages]_vars

\* createMessage returned the stored message although its updateTicket was
\* answered with an error.
C15_Witness ==
    /\ result.op = "reply" /\ result.ok
    /\ result.touch = "error"
    /\ messages[result.message.id] = result.message

\* The step on which updateTicket's request is answered.
UpdateStep == call.op = "updateTicket" /\ call'.pc = "idle"

\* C16: when the ticket is stored and the backend accepts the write,
\* updateTicket returns the stored row, in which the given fields have the
\* given values, updated_at is the call's timestamp (later than the stored
\* one unless another client wrote meanwhile) and every other field is as
\* before, and no other row changes; when no ticket has the id or the
\* backend refuses, it returns null and the tickets are as before.
C16_UpdateExactOrNothing ==
    [][UpdateStep =>
        LET r == result'
            known == call.id \in 1..Len(tickets)
        IN  /\ (known /\ r.outcome = "ok") =>
                   /\ r.ok
                   /\ r.row = tickets'[call.id]
                   /\ DOMAIN r.row = DOMAIN tickets[call.id]
                   /\ \A f \in DOMAIN r.row :
                          r.row[f] = IF f = "updated_at" THEN call.at
                                     ELSE IF f \in DOMAIN call.updates THEN call.updates[f]
                                     ELSE tickets[call.id][f]
                   /\ call.quiet => r.row.updated_at > tickets[call.id].updated_at
                   /\ Len(tickets') = Len(tickets)
                   /\ \A k \in 1..Len(tickets) : k # call.id => tickets'[k] = tickets[k]
            /\ (~known \/ r.outcome # "ok") => (~r.ok /\ tickets' = tickets)]_vars

\* updateTicket returned ticket 2 with the two given fields changed, a later
\* updated_at and its status, subject and customer as stored before.
C16_Witness ==
    /\ result.op = "updateTicket" /\ result.ok /\ result.id = 2
    /\ result.updates = [priority |-> "medium", assigned_to |-> "u1"]
    /\ tickets[2] = result.row
    /\ result.row.priority = "medium" /\ result.row.assigned_to = "u1"
    /\ result.row.status = "pending" /\ result.row.customer_id = OtherCustomer
    /\ result.row.updated_at > 2

\* updateTicket returned null for an id that no ticket has, and for a stored
\* ticket whose update the backend refused.
C16_WitnessFailure ==
    /\ result.op = "updateTicket" /\ ~result.ok
    /\ result.id \notin 1..Len(tickets) \/ result.outcome = "error"

\* C17: when no request of getTicket threw, getTicket returns null exactly
\* when the ticket row was not fetched; and a returned ticket has customer
\* null after a failed customer query, assigned_to_profile null after a
\* failed assignee query, no messages after a failed message query, every
\* sender null after a failed sender query and every attachment list empty
\* after a failed attachment query.
C17_NullOnlyWithoutRow ==
    (result.op = "getTicket") =>
        /\ ~result.threw => (result.ok <=> result.rowFetched)
        /\ ~result.rowFetched => ~result.ok
        /\ result.ok =>
               /\ result.ticket.id = result.id
               /\ "customer" \in result.down => result.customer = NoProfile
               /\ "assigned" \in result.down => result.assigned_to_profile = NoProfile
               /\ "messages" \in result.down => result.messages = << >>
               /\ \A i \in 1..Len(result.messages) :
                      /\ "senders" \in result.down => result.messages[i].sender = NoProfile
                      /\ "attachments" \in result.down =>
                             result.messages[i].attachments = << >>

\* getTicket returned the ticket after the customer query and the attachment
\* query failed: the customer, who has a profile, is null, and a message
\* with a stored attachment has an empty attachment list.
C17_Witness ==
    /\ result.op = "getTicket" /\ result.ok
    /\ {"customer", "attachments"} \subseteq result.down
    /\ ProfileOf(result.ticket.customer_id) # NoProfile
    /\ result.customer = NoProfile
    /\ \E i \in 1..Len(result.messages) :
           /\ AttachmentsOf(attachments, result.messages[i].id) # << >>
           /\ result.messages[i].attachments = << >>

\* getTicket returned a message with its stored attachment.
C17_WitnessAttached ==
    /\ result.op = "getTicket" /\ result.ok
    /\ \E i \in 1..Len(result.messages) : result.messages[i].attachments # << >>

BlobOf(a) == a.file_path \in blobs
Orphans == {p \in blobs : \A i \in 1..Len(attachments) : attachments[i].file_path # p}

\* C18: every stored attachment record refers to a stored blob; a record is
\* inserted only for a blob stored on an earlier step, at the path
\* '{messageId}/{fileName}'; no blob is ever removed; and uploadAttachment
\* returns the record when both steps succeeded and null otherwise, having
\* inserted no record when the blob store failed.
C18_RecordsHaveBlobs ==
    /\ [](\A i \in 1..Len(attachments) : BlobOf(attachments[i]))
    /\ [](result.op = "uploadAttachment" =>
             /\ result.ok =>
                    /\ result.stored
                    /\ result.row.id \in 1..Len(attachments)
                    /\ attachments[result.row.id] = result.row
                    /\ result.row.message_id = result.messageId
                    /\ result.row.file_path = <<ToString(result.messageId), "/", result.name>>
             /\ ~result.ok => result.row = NoAttachment
             /\ ~result.stored => ~result.ok)
    /\ [][/\ blobs \subseteq blobs'
          /\ attachments' # attachments =>
                 /\ Len(attachments') = Len(attachments) + 1
                 /\ SubSeq(attachments', 1, Len(attachments)) = attachments
                 /\ call.op = "uploadAttachment" /\ call.stored
                 /\ attachments'[Len(attachments')].file_path = call.filePath
                 /\ call.filePath \in blobs
                 /\ result'.ok
          /\ (call.op = "uploadAttachment" /\ call'.pc = "idle" /\ ~result'.ok) =>
                 attachments' = attachments]_vars

\* uploadAttachment returned null after the blob was stored and the record
\* insert failed: the blob is in the bucket with no record.
C18_Witness ==
    /\ result.op = "uploadAttachment" /\ ~result.ok /\ result.stored
    /\ result.filePath \in Orphans

\* uploadAttachment stored blob and record.
C18_WitnessStored ==
    /\ result.op = "uploadAttachment" /\ result.ok
    /\ Len(attachments) > Len(InitAttachments)
    /\ Orphans = {}

\* No run of initializeAuth or of the event callback is between two of its
\* steps, and no emitted event waits for delivery.
Quiescent ==
    /\ \A p \in Resolvers : proc[p].pc \in {"idle", "done"}
    /\ pending = << >>

\* C19: whenever the session is absent and no event handler or profile
\* resolution is in flight, profile is absent and the role is null.
C19_NoSessionNoProfile ==
    (session = None /\ Quiescent /\ ~tornDown) =>
        (profile = NoProfile /\ userType = NullRole)

\* supabase.auth.signOut() has answered the running signOut() with success,
\* nobody has signed in since, and nothing else will be asked of the
\* coordinator or the backend afterwards.
SignedOutLast ==
    /\ proc["op"].kind = "signOut" /\ proc["op"].pc = "resp" /\ proc["op"].ret = "ok"
    /\ backendSession = None
    /\ nstim = MaxStimuli

SettledAtRoot == session = None /\ location = Root

\* The steps of a signOut() whose backend call failed.
SignOutFailedStep ==
    /\ proc["op"].kind = "signOut"
    /\ \/ proc["op"].pc = "req" /\ proc'["op"].pc = "resp" /\ proc'["op"].ret = "err"
       \/ proc["op"].pc = "resp" /\ proc["op"].ret = "err" /\ proc'["op"].pc = "done"

\* C20: once the backend has signed the user out, and no later request is
\* made, the coordinator (unless it is unmounted) comes to have no session
\* and the location '/', and stays so, in whichever order signOut() resumes
\* and the session-change event is delivered; and the steps of a signOut()
\* whose backend call failed issue no redirect and leave the backend
\* session, session, profile and role as they are.
C20_SignOutSettlesAtRoot ==
    /\ SignedOutLast ~> [](SettledAtRoot \/ tornDown)
    /\ [][SignOutFailedStep =>
             /\ location' = location /\ navLog' = navLog
             /\ session' = session /\ profile' = profile /\ userType' = userType
             /\ backendSession' = backendSession /\ pending' = pending]_vars

\* signOut() has returned after a successful backend call and the event was
\* delivered: no session, location '/', redirect issued by signOut.
C20_Witness ==
    /\ proc["op"].kind = "signOut" /\ proc["op"].pc = "done" /\ proc["op"].ret = "ok"
    /\ nstim = MaxStimuli
    /\ SettledAtRoot /\ pending = << >>
    /\ \E n \in navLog : n.by = "signOut"
    /\ ~tornDown

\* What the caller of getTickets and the user of TicketList can see of a
\* result: the returned list and the component's error.
Visible(r) == <<r.list, r.error>>

\* C21: a getTickets call whose ticket query was answered with an error (or
\* threw) shows its caller something else than a successful fetch of zero
\* tickets does, an empty list with no error.
C21_FailureDistinguishable ==
    (result.op = "getTickets" /\ result.failed) => Visible(result) # <<<< >>, None>>

\* C22: every stored ticket has a status and a priority of the closed
\* enumerations and an updated_at that is not before its created_at.
C22_TicketInvariant ==
    \A i \in 1..Len(tickets) :
        /\ tickets[i].status \in Statuses
        /\ tickets[i].priority \in Priorities
        /\ tickets[i].updated_at >= tickets[i].created_at

\* The part of C22 about the enumerations alone.
C22_Enumerations ==
    \A i \in 1..Len(tickets) :
        tickets[i].status \in Statuses /\ tickets[i].priority \in Priorities

\* Run p of fetchOrCreateProfile, for the user of the held session, has
\* returned null, and no other run for that user has returned a profile.
GaveUp(p) ==
    /\ proc[p].kind \in {"boot", "event"}
    /\ proc[p].pc = "done"
    /\ session # None
    /\ proc[p].uid = session
    /\ proc[p].ret = None
    /\ \A q \in Resolvers \ {p} : proc[q].uid = session => proc[q].ret = None

\* C23: when the profile resolution for the signed-in user has given up
\* (no profile found and none created) and nothing is in flight, the
\* coordinator holds no profile and no role.
C23_GiveUpLeavesUnset ==
    \A p \in Resolvers :
        (GaveUp(p) /\ Quiescent /\ ~tornDown) =>
            (profile = NoProfile /\ userType = NullRole)

\* The coordinator is ready and the navigation function gives a redirect for
\* the current location.
RedirectDue ==
    /\ ~tornDown
    /\ NavGuard
    /\ NavIntent(isAuthenticated, userType, Pathname(location)) # NoRedirect

StoredOf(id) == {k \in 1..Len(messages) : messages[k].ticket_id = id}

\* m is the stored message of ticket id with the greatest created_at, or
\* null when the ticket has none.
IsLatestOf(m, id) ==
    IF StoredOf(id) = {}
    THEN m = NoMessage
    ELSE \E k \in StoredOf(id) :
             /\ m.id = messages[k].id
             /\ m.ticket_id = id
             /\ m.content = messages[k].content
             /\ m.sender_id = messages[k].sender_id
             /\ m.created_at = messages[k].created_at
             /\ \A j \in StoredOf(id) : messages[j].created_at <= m.created_at

\* getTickets has returned its list, no lookup of the call failed and no
\* other client wrote during the call or since.
UndisturbedList ==
    /\ result.op = "getTickets"
    /\ ~result.failed
    /\ result.clean /\ result.quiet /\ result.fresh

\* C25: in every ticket returned by getTickets with no failing lookup and no
\* concurrent write, message_count is the number of stored messages of that
\* ticket, last_message is its stored message with the greatest created_at
\* (null when it has none), and messages is empty.
C25_CountAndLastMessage ==
    UndisturbedList =>
        \A i \in 1..Len(result.list) :
            LET t == result.list[i] IN
            /\ t.message_count = Cardinality(StoredOf(t.id))
            /\ IsLatestOf(t.last_message, t.id)
            /\ t.messages = << >>

\* A list with a ticket of two messages and a ticket of none.
C25_Witness ==
    /\ UndisturbedList
    /\ \E i \in 1..Len(result.list) : result.list[i].message_count = 2
    /\ \E i \in 1..Len(result.list) :
           /\ result.list[i].message_count = 0
           /\ result.list[i].last_message = NoMessage

\* C26: in every result of getTickets, also when other clients' createMessage
\* calls fall between its message-count and last-message round trips, each
\* returned ticket has message_count = 0 exactly when last_message is null.
C26_CountAgreesWithLast ==
    (result.op = "getTickets" /\ ~result.failed /\ result.clean) =>
        \A i \in 1..Len(result.list) :
            result.list[i].message_count = 0 <=> result.list[i].last_message = NoMessage

\* C27: whenever a session and a profile are both held and no event handler
\* or profile resolution is in flight (and no event waits for delivery), the
\* held profile is the session user's.
C27_ProfileOfSessionUser ==
    (/\ ~tornDown
     /\ session # None
     /\ profile # NoProfile
     /\ Quiescent
     /\ \A p \in Procs : proc[p].pc \in {"idle", "done"}) => profile.id = session

\* C28: in every reachable state of the coordinator the role is the held
\* profile's user_type, and it is null exactly when no profile is held; so no
\* step leaves one of the two set without the other.
C28_RoleDerivedFromProfile ==
    /\ userType = NullRole <=> profile = NoProfile
    /\ profile # NoProfile => userType = profile.user_type

\* Two resolutions have returned the profiles of different users and one of
\* them is held.
C28_Witness ==
    /\ profile # NoProfile
    /\ userType = profile.user_type
    /\ \E p, q \in Resolvers :
           /\ proc[p].ret # None /\ proc[q].ret # None
           /\ proc[p].ret # proc[q].ret

\* The held profile and role have been cleared by an event without a
\* session after a profile had been adopted.
C28_WitnessCleared ==
    /\ ~tornDown
    /\ profile = NoProfile /\ userType = NullRole
    /\ \E p \in Resolvers : proc[p].pc = "done" /\ proc[p].ret # None

\* Neither the matched route nor the navigation function gives a redirect
\* for the current location.
RouteSettled ==
    /\ RouteRedirect(isAuthenticated, userType, isLoading, Pathname(location)) = NoRedirect
    /\ NavIntent(isAuthenticated, userType, Pathname(location)) = NoRedirect

UnderDashboard(pathname) ==
    \E r \in Roles : StartsWith(pathname, RolePath(r))

\* C29: for every fixed session, role and starting path of a Ready
\* coordinator, the redirects of the routes and of the navigation effect end
\* at a location where neither gives a further redirect; a signed-in user
\* without a role does not stay under '/admin' or '/customer'.
C29_RedirectsSettle ==
    /\ <>[]RouteSettled
    /\ <>[]((isAuthenticated /\ userType = NullRole) => ~UnderDashboard(Pathname(location)))

\* A signed-in user without a role has been sent by ProtectedRoute from a
\* dashboard to '/null', which only the fallback route matches.
C29_Witness ==
    /\ isAuthenticated /\ userType = NullRole
    /\ location = RolePath(NullRole)
    /\ \E r \in navLog : r.by = "route"

\* A signed-in user without a role rests at '/' after a redirect of the
\* routes.
C29_WitnessSettled ==
    /\ isAuthenticated /\ userType = NullRole
    /\ RouteSettled
    /\ location = Root
    /\ \E r \in navLog : r.by = "route"

\* C30: whenever the coordinator is initialized and not unmounted, it
\* eventually holds a subscription to the session-change events, on every
\* path into Ready, the catch block of bootstrapping included.
C30_ReadyLeadsToSubscribed ==
    (isInitialized /\ ~tornDown) ~> (subscribed > 0 \/ tornDown)

====
